---- MODULE Spec2Model ----
(***************************************************************************)
(* A model of the FastFile (XFile) deserializer: the stream cursor with    *)
(* its seek-and-restore primitive, the block address space, the primitive  *)
(* readers (Ptr32, XString, the fat pointers, the pointer arrays), the     *)
(* script-string table and the driver that reads one inflated payload.     *)
(*                                                                         *)
(* 32-bit words are kept at their width.  TLC's integers are 32-bit signed *)
(* values, so a u32 is held as two 16-bit limbs [hi, lo]; all arithmetic   *)
(* on it is done limb-wise with an explicit carry.                         *)
(***************************************************************************)
EXTENDS Integers, Sequences, FiniteSets, TLC

VARIABLES
    overflow_checks,  \* build profile: TRUE = arithmetic overflow panics (debug), FALSE = wraps (release)
    XFILE,            \* static XFILE: OnceLock<XFile>; the seven block sizes, or None
    SCRIPT_STRINGS,   \* static SCRIPT_STRINGS: OnceLock<Vec<String>>, or None
    stream,           \* the inflated payload, a sequence of bytes
    pos,              \* the cursor: stream_position()
    stack,            \* the seek_and calls in progress, innermost last
    status,           \* "running", "panicked" (a panic is unwinding), "done"
    resolved,         \* the last invocation of convert_offset_to_ptr: argument and result
    call,             \* the last completed operation: its inputs and what it returned
    pc,               \* the driver's position in main
    xasset_list,      \* the decoded XAssetList envelope
    raw_strings,      \* the XString tokens read for the script-string table
    strings,          \* main's local: the script strings converted so far
    raw_assets,       \* the XAssetRaw records read from the asset fat pointer
    deserialized_assets, \* main's output vector
    fs                \* the files: the fastfile, its cache sidecar, main's file handle

vars == <<overflow_checks, XFILE, SCRIPT_STRINGS, stream, pos, stack, status,
          resolved, call, pc, xasset_list, raw_strings, strings, raw_assets,
          deserialized_assets, fs>>

\* an unset OnceLock, an absent value
None == [set |-> FALSE]

Some(v) == [set |-> TRUE, v |-> v]

\* no fastfile and no cache sidecar: the payload is held by a readable cursor
InMemory == [ff |-> None, cache |-> None, file |-> "read", found |-> FALSE,
             opened |-> FALSE, verified |-> FALSE, inflated |-> FALSE]

(***************************************************************************)
(* u32 arithmetic on 16-bit limbs.                                         *)
(***************************************************************************)
Limb == 2^16

U32(h, l) == [hi |-> h, lo |-> l]

FromNat(n) == U32(n \div Limb, n % Limb)

\* the value of a u32 as a natural number, for words below 2^31 only
IsSmall(v) == v.hi < 2^15

ToNat(v) == v.hi * Limb + v.lo

\* v as u64 <= n, for a small natural n (a stream length)
LeNat(v, n) == IsSmall(v) /\ ToNat(v) <= n

Zero32 == U32(0, 0)

\* a - 1 in 32 bits: [ovf |-> the subtraction underflowed, val |-> the wrapped result]
Sub1(v) ==
    IF v.lo > 0 THEN [ovf |-> FALSE, val |-> U32(v.hi, v.lo - 1)]
    ELSE IF v.hi > 0 THEN [ovf |-> FALSE, val |-> U32(v.hi - 1, Limb - 1)]
    ELSE [ovf |-> TRUE, val |-> U32(Limb - 1, Limb - 1)]

\* a + b in 32 bits: [ovf |-> the addition overflowed, val |-> the wrapped result]
Add32(a, b) ==
    LET lo == a.lo + b.lo
        hi == a.hi + b.hi + (lo \div Limb)
    IN  [ovf |-> hi >= Limb, val |-> U32(hi % Limb, lo % Limb)]

\* v >> 29
Shr29(v) == v.hi \div 2^13

\* v & 0x1FFFFFFF
And1FFFFFFF(v) == U32(v.hi % 2^13, v.lo)

(***************************************************************************)
(* The block address space: convert_offset_to_ptr.                         *)
(***************************************************************************)
NumBlocks == Len(<<0, 1, 2, 3, 4, 5, 6>>)   \* block_size: [u32; 7]

\* block_sizes[0..k].iter().sum::<u32>(), with the overflow it met on the way
RECURSIVE SumPrefix(_, _)
SumPrefix(block_sizes, k) ==
    IF k = 0 THEN [ovf |-> FALSE, val |-> Zero32]
    ELSE LET r == SumPrefix(block_sizes, k - 1)
             s == Add32(r.val, block_sizes[k])
         IN  [ovf |-> r.ovf \/ s.ovf, val |-> s.val]

\* pub fn convert_offset_to_ptr(offset: u32) -> (u8, u32)
\* panic: XFILE.get().unwrap() on an unset table or, in a build with overflow
\* checks, an overflowing subtraction or addition.
convert_offset_to_ptr(offset) ==
    LET d     == Sub1(offset)
        block == Shr29(d.val)
        off   == And1FFFFFFF(d.val)
        start == IF ~XFILE.set THEN [ovf |-> FALSE, val |-> Zero32]
                 ELSE SumPrefix(XFILE.v, block)
        p     == Add32(start.val, off)
    IN  [panic |-> ~XFILE.set
                   \/ (overflow_checks /\ (d.ovf \/ start.ovf \/ p.ovf)),
         block |-> block, p |-> p.val]

(***************************************************************************)
(* The stream cursor: SeekAnd::seek_and.                                   *)
(***************************************************************************)
FFFFFFFF == U32(Limb - 1, Limb - 1)

FFFFFFFE == U32(Limb - 1, Limb - 2)

\* std::io::SeekFrom: p is the token of Start, d the displacement of Current and End
Start(p) == [kind |-> "Start", p |-> p, d |-> 0]

Current(d) == [kind |-> "Current", p |-> Zero32, d |-> d]

End(d) == [kind |-> "End", p |-> Zero32, d |-> d]

NoResolve == [invoked |-> FALSE]

\* the arm of seek_and for an absolute token p that convert_offset_to_ptr
\* resolved to r (lines 272-274): assert!(off as u64 <= stream_len), seek
seek_to(p, r, cur, len) ==
    IF r.panic \/ ~LeNat(r.p, len)
    THEN [outcome |-> "panic", pos |-> cur, jumped |-> FALSE,
          resolve |-> [invoked |-> TRUE, arg |-> p, res |-> r]]
    ELSE [outcome |-> "call", pos |-> ToNat(r.p), jumped |-> TRUE,
          resolve |-> [invoked |-> TRUE, arg |-> p, res |-> r]]

\* a faulty variant: only 0xFFFFFFFF is taken for a sentinel
seek_and_enter_OneSentinel(from, cur, len) ==
    IF from.kind = "Start" THEN
        IF from.p # FFFFFFFF
        THEN seek_to(from.p, convert_offset_to_ptr(from.p), cur, len)
        ELSE [outcome |-> "call", pos |-> cur, jumped |-> FALSE, resolve |-> NoResolve]
    ELSE [outcome |-> "panic", pos |-> cur, jumped |-> FALSE, resolve |-> NoResolve]

\* seek_and, up to the invocation of the predicate (lines 268-284).
\* outcome "call": the predicate is invoked with the cursor at pos;
\* outcome "panic": convert_offset_to_ptr panicked, an assert! failed or
\*                  unimplemented!() was reached; the cursor is where it was;
\* outcome "err":   self.seek returned Err (a seek before byte 0) and `?`
\*                  returned it; the predicate is not invoked.
seek_and_enter(from, cur, len) ==
    IF from.kind = "Start" THEN
        IF from.p # FFFFFFFF /\ from.p # FFFFFFFE
        THEN seek_to(from.p, convert_offset_to_ptr(from.p), cur, len)
        ELSE [outcome |-> "call", pos |-> cur, jumped |-> FALSE, resolve |-> NoResolve]
    ELSE IF from.kind = "Current" THEN
        IF ~(cur + from.d <= len)
        THEN [outcome |-> "panic", pos |-> cur, jumped |-> FALSE, resolve |-> NoResolve]
        ELSE IF cur + from.d < 0
        THEN [outcome |-> "err", pos |-> cur, jumped |-> FALSE, resolve |-> NoResolve]
        ELSE [outcome |-> "call", pos |-> cur + from.d, jumped |-> FALSE, resolve |-> NoResolve]
    ELSE [outcome |-> "panic", pos |-> cur, jumped |-> FALSE, resolve |-> NoResolve]

\* a faulty variant: the cursor stays where the predicate stopped
seek_and_exit_NoRestore(from, saved, cur) == cur

\* seek_and, after the predicate has returned (lines 288-298): the position
\* the cursor is left at, given the position saved on entry and the position
\* the predicate left.
seek_and_exit(from, saved, cur) ==
    IF from.kind = "Start" THEN
        IF from.p # FFFFFFFF /\ from.p # FFFFFFFE THEN saved ELSE cur
    ELSE cur - from.d

\* the positions seek_and can invoke a predicate at, called with the cursor at cur
Cursors(cur) == (0..Len(stream)) \cup {cur}

\* seek_and once it has sought (e is what seek_and_enter returned): the
\* predicate runs at e.pos and leaves t, then the position is restored
seek_and_restore(from, cur, e, t) ==
    IF t.panic
    THEN [outcome |-> "panic", value |-> <<>>, pos |-> t.pos, at |-> e.pos,
          resolve |-> e.resolve]
    ELSE [outcome |-> "ok", value |-> t.value,
          pos |-> seek_and_exit(from, cur, t.pos), at |-> e.pos,
          resolve |-> e.resolve]

seek_and_call(from, cur, predicate, e) ==
    IF e.outcome # "call"
    THEN [outcome |-> e.outcome, value |-> <<>>, pos |-> cur, at |-> -1,
          resolve |-> e.resolve]
    ELSE seek_and_restore(from, cur, e, predicate[e.pos])

\* the whole of seek_and: enter, run the predicate where the cursor was put,
\* restore.  predicate[c] is what the predicate does with the cursor at c:
\* [panic, value, pos].  at is where the predicate was invoked, -1 if it was not.
seek_and(from, cur, predicate) ==
    seek_and_call(from, cur, predicate, seek_and_enter(from, cur, Len(stream)))

(***************************************************************************)
(* The primitive readers.  A value of a raw type T of sz bytes is the      *)
(* sequence of its sz bytes.  Every reader returns                         *)
(*   [panic, some, read, value, pos, at, resolve]:                         *)
(* some: the Option is Some (for a Vec or a String: the referent was       *)
(* produced rather than defaulted); read: the predicate was invoked.       *)
(***************************************************************************)
\* the position read_exact leaves when the payload ends before n bytes are read
EofPos(cur, len) == IF cur > len THEN cur ELSE len

\* for _ in 0..size { vt.push(bincode::deserialize_from::<_, T>(&mut f).unwrap()) }
read_elems(cur, size, sz) ==
    IF cur + size * sz <= Len(stream)
    THEN [panic |-> FALSE, pos |-> cur + size * sz,
          value |-> [i \in 1..size |-> SubSeq(stream, cur + (i - 1) * sz + 1, cur + i * sz)]]
    ELSE [panic |-> TRUE, pos |-> EofPos(cur, Len(stream)), value |-> <<>>]

\* to_string_lossy: an ASCII byte is its character, a byte that cannot start a
\* UTF-8 sequence becomes U+FFFD (the payloads of this model hold ASCII bytes
\* and 0xFF only)
to_string_lossy(bytes) ==
    [i \in 1..Len(bytes) |-> IF bytes[i] < 128 THEN bytes[i] ELSE 65533]

\* fn file_read_string: bytes up to the first NUL, the NUL consumed and dropped
file_read_string(cur) ==
    LET nuls == {k \in (cur + 1)..Len(stream) : stream[k] = 0}
    IN  IF nuls = {}
        THEN [panic |-> TRUE, pos |-> EofPos(cur, Len(stream)), value |-> <<>>]
        ELSE LET k == CHOOSE k \in nuls : \A j \in nuls : k <= j
             IN  [panic |-> FALSE, pos |-> k,
                  value |-> to_string_lossy(SubSeq(stream, cur + 1, k - 1))]

Absent(cur) ==
    [panic |-> FALSE, some |-> FALSE, read |-> FALSE, value |-> <<>>, pos |-> cur,
     at |-> -1, resolve |-> NoResolve]

\* what a reader returns from the result r of its seek_and; some is what the
\* reader makes of an Err
FromSeekAnd(r, some) ==
    [panic |-> r.outcome = "panic", some |-> IF r.outcome = "ok" THEN TRUE ELSE some,
     read |-> r.at >= 0, value |-> r.value, pos |-> r.pos, at |-> r.at,
     resolve |-> r.resolve]

\* impl XFileInto<Option<Box<U>>, V> for Ptr32<T>: xfile_into
Ptr32_xfile_into(token, cur, sz) ==
    IF token = Zero32 THEN Absent(cur)
    ELSE IF token # FFFFFFFF THEN Absent(cur)      \* "ignoring offset"
    ELSE IF token # FFFFFFFE THEN Absent(cur)      \* "fffffffe"
    ELSE LET one == [c \in Cursors(cur) |-> read_elems(c, 1, sz)]
         IN  FromSeekAnd(seek_and(Start(token), cur, one), FALSE)

\* Ptr32::xfile_get
Ptr32_xfile_get(token, cur, sz) ==
    IF token = Zero32 THEN Absent(cur)
    ELSE IF token # FFFFFFFF THEN Absent(cur)      \* "ignoring offset"
    ELSE LET one == [c \in Cursors(cur) |-> read_elems(c, 1, sz)]
         IN  FromSeekAnd(seek_and(Start(token), cur, one), FALSE)

\* seek_and(..).unwrap(): an Err panics
Unwrapped(r) == [FromSeekAnd(r, FALSE) EXCEPT !.panic = r.outcome # "ok"]

\* impl XFileInto<String, ()> for XString: xfile_into
XString_xfile_into(token, cur) ==
    IF token = Zero32 THEN Absent(cur)
    ELSE IF token = FFFFFFFF
    THEN Unwrapped(seek_and(Start(token), cur,
                            [c \in Cursors(cur) |-> file_read_string(c)]))
    ELSE Absent(cur)                               \* "ignoring offset"

\* a faulty variant: the null check is missing
to_vec_NoNullCheck(token, size, cur, sz) ==
    LET elems == [c \in Cursors(cur) |-> read_elems(c, size, sz)]
    IN  FromSeekAnd(seek_and(Start(token), cur, elems), FALSE)

\* FatPointerCountFirstU32::to_vec; the five other to_vec bodies are this one,
\* token for token
to_vec(token, size, cur, sz) ==
    IF token = Zero32 THEN Absent(cur)
    ELSE LET elems == [c \in Cursors(cur) |-> read_elems(c, size, sz)]
         IN  FromSeekAnd(seek_and(Start(token), cur, elems), FALSE)   \* .ok().unwrap_or_default()

FatPointerCountFirstU16_to_vec(token, size, cur, sz) == to_vec(token, size, cur, sz)

\* a faulty variant: the loop stops one element short
FatPointerCountFirstU32_to_vec_OneShort(token, size, cur, sz) ==
    to_vec(token, IF size > 0 THEN size - 1 ELSE 0, cur, sz)

FatPointerCountFirstU32_to_vec(token, size, cur, sz) == to_vec(token, size, cur, sz)

FatPointerCountLastU16_to_vec(token, size, cur, sz) == to_vec(token, size, cur, sz)

FatPointerCountLastU32_to_vec(token, size, cur, sz) == to_vec(token, size, cur, sz)

Ptr32Array_to_vec(token, size, cur, sz) == to_vec(token, size, cur, sz)

\* Ptr32ArrayConst<T, N>::to_vec, N the const generic
Ptr32ArrayConst_to_vec(token, N, cur, sz) == to_vec(token, N, cur, sz)

\* FlexibleArrayU16::to_vec: count * size_of::<T>() bytes are read with one
\* read_exact(..).unwrap() from the current position and cut into count Ts
FlexibleArrayU16_to_vec(count, cur, sz) ==
    LET e == read_elems(cur, count, sz)
    IN  [panic |-> e.panic, some |-> TRUE, read |-> TRUE, value |-> e.value,
         pos |-> e.pos, at |-> cur, resolve |-> NoResolve]

\* a faulty variant: the buffer holds count bytes, not count * size_of::<T>()
FlexibleArrayU32_to_vec_CountBytes(count, cur, sz) ==
    LET e == read_elems(cur, count, 1)
    IN  [panic |-> e.panic, some |-> TRUE, read |-> TRUE, value |-> e.value,
         pos |-> e.pos, at |-> cur, resolve |-> NoResolve]

\* FlexibleArrayU32::to_vec, the same body with a u32 count
FlexibleArrayU32_to_vec(count, cur, sz) ==
    LET e == read_elems(cur, count, sz)
    IN  [panic |-> e.panic, some |-> TRUE, read |-> TRUE, value |-> e.value,
         pos |-> e.pos, at |-> cur, resolve |-> NoResolve]

(***************************************************************************)
(* The script-string table: ScriptString.                                  *)
(***************************************************************************)
\* lib.rs, ScriptString::to_string(self, de): de.script_strings.get(i).cloned()
\* .ok_or(Error::new(.., de.stream_pos()?, ErrorKind::BadScriptString(i)))
ScriptString_to_string(i, at) ==
    IF i < Len(SCRIPT_STRINGS.v)
    THEN [ok |-> TRUE, panic |-> FALSE, value |-> SCRIPT_STRINGS.v[i + 1]]
    ELSE [ok |-> FALSE, panic |-> FALSE, kind |-> "BadScriptString", index |-> i, off |-> at]

\* main.rs, impl Display for ScriptString (to_string through ToString):
\* SCRIPT_STRINGS.get().unwrap()[self.0 as usize]; the unwrap and the index
\* both panic.
ScriptString_fmt(i) ==
    IF ~SCRIPT_STRINGS.set THEN [ok |-> FALSE, panic |-> TRUE]
    ELSE IF i < Len(SCRIPT_STRINGS.v)
    THEN [ok |-> TRUE, panic |-> FALSE, value |-> SCRIPT_STRINGS.v[i + 1]]
    ELSE [ok |-> FALSE, panic |-> TRUE]

(***************************************************************************)
(* Bounds and input sets.                                                  *)
(***************************************************************************)
StreamLen == 3     \* length of the payloads of the primitive-reader harness
SeekLen == 2       \* length of the payload of the seek_and harness
MaxDepth == 2      \* seek_and calls in progress at once
MaxCount == 2      \* largest element count of a fat pointer or pointer array
MaxStrings == 2    \* most script strings an envelope announces
MaxAssets == 2     \* most asset records an envelope announces
MaxTable == 2      \* entries of the script-string table of the pure harness
MaxIndex == 3      \* largest ScriptString index tried

\* the i-th script string is the one-byte string <<96 + i>>
ScriptTables == { [i \in 1..n |-> <<96 + i>>] : n \in 0..MaxTable }

Pad(a, b, c) == <<a, b, c, Zero32, Zero32, Zero32, Zero32>>

\* block-size tables: small blocks; a first block of 0xFFFFFFFF bytes; blocks
\* whose sizes add up to 0xFFFFFFFF and then to 2^32
Tables ==
    { Pad(FromNat(2), FromNat(1), FromNat(1)),
      Pad(U32(Limb - 1, Limb - 1), FromNat(2), Zero32),
      Pad(U32(2^15, 0), U32(2^15 - 1, Limb - 1), FromNat(1)) }

\* absolute tokens on a grid that crosses the limb, the block and the word boundaries
AbsTokens ==
    { U32(h, l) : h \in {0, 2^13 - 1, 2^13, 2^14, 7 * 2^13, Limb - 1},
                  l \in {0, 1, 2, Limb - 3, Limb - 1} }
    \ {Zero32, FFFFFFFF, FFFFFFFE}

NoCall == [op |-> "none"]

TypeOK ==
    /\ overflow_checks \in BOOLEAN
    /\ fs.file \in {"none", "read", "write"}
    /\ status \in {"running", "panicked", "done"}
    /\ pos \in Nat
    /\ Len(stack) <= MaxDepth + 1

(***************************************************************************)
(* SpecPure: the pure functions applied to inputs drawn from bounded sets. *)
(***************************************************************************)
InitPure ==
    /\ overflow_checks \in BOOLEAN
    /\ fs = InMemory
    /\ XFILE \in {Some(t) : t \in Tables}
    /\ SCRIPT_STRINGS \in {Some(t) : t \in ScriptTables}
    /\ stream = <<>>
    /\ pos = 0
    /\ stack = <<>>
    /\ status = "running"
    /\ resolved = NoResolve
    /\ call = NoCall
    /\ pc = "pure"
    /\ xasset_list = None
    /\ raw_strings = <<>>
    /\ strings = <<>>
    /\ raw_assets = <<>>
    /\ deserialized_assets = <<>>

Resolve(t) ==
    /\ status = "running"
    /\ resolved' = [invoked |-> TRUE, arg |-> t, res |-> convert_offset_to_ptr(t)]
    /\ call' = [op |-> "resolve"]
    /\ UNCHANGED <<overflow_checks, fs, XFILE, SCRIPT_STRINGS, stream, pos, stack, status,
                   pc, xasset_list, raw_strings, strings, raw_assets, deserialized_assets>>

ToStringLib(i) ==
    /\ status = "running"
    /\ call' = [op |-> "to_string", impl |-> "lib", index |-> i,
                ret |-> ScriptString_to_string(i, pos)]
    /\ UNCHANGED <<overflow_checks, fs, XFILE, SCRIPT_STRINGS, stream, pos, stack, status,
                   resolved, pc, xasset_list, raw_strings, strings, raw_assets, deserialized_assets>>

ToStringDisplay(i) ==
    /\ status = "running"
    /\ LET r == ScriptString_fmt(i)
       IN  /\ call' = [op |-> "to_string", impl |-> "main", index |-> i, ret |-> r]
           /\ status' = IF r.panic THEN "panicked" ELSE status
    /\ UNCHANGED <<overflow_checks, fs, XFILE, SCRIPT_STRINGS, stream, pos, stack,
                   resolved, pc, xasset_list, raw_strings, strings, raw_assets, deserialized_assets>>

NextPure ==
    \/ \E t \in AbsTokens : Resolve(t)
    \/ \E i \in 0..MaxIndex : ToStringLib(i)
    \/ \E i \in 0..MaxIndex : ToStringDisplay(i)

SpecPure == InitPure /\ [][NextPure]_vars

(***************************************************************************)
(* The resolve formula of the specification, in its own arithmetic: a word *)
(* is split into its top 3 bits and its low 29 bits, and sums are carried  *)
(* from the low part into the high part without wrapping.                  *)
(***************************************************************************)
Split(v) == [b |-> v.hi \div 2^13, o |-> (v.hi % 2^13) * 2^16 + v.lo]

\* t - 1, for t # 0
SplitDec(t) ==
    LET s == Split(t)
    IN  IF s.o > 0 THEN [b |-> s.b, o |-> s.o - 1] ELSE [b |-> s.b - 1, o |-> 2^29 - 1]

SplitAdd(x, y) ==
    [b |-> x.b + y.b + ((x.o + y.o) \div 2^29), o |-> (x.o + y.o) % 2^29]

RECURSIVE SplitSum(_, _)
SplitSum(sizes, k) ==
    IF k = 0 THEN [b |-> 0, o |-> 0] ELSE SplitAdd(SplitSum(sizes, k - 1), Split(sizes[k]))

\* sum(block_sizes[0..block]) + offset_within_block as an unbounded number
SplitTotal(t, sizes) ==
    LET d == SplitDec(t)
    IN  SplitAdd(SplitSum(sizes, d.b), [b |-> 0, o |-> d.o])

\* C6 (as stated): for every absolute token t and every table of seven block
\* sizes, resolve(t) returns block = (t - 1) >> 29 and absolute offset =
\* sum(block_sizes[0..block]) + ((t - 1) & 0x1FFFFFFF) as 32-bit unsigned values.
C6_ResolveAlwaysReturns ==
    (call.op = "resolve" /\ resolved.invoked) =>
        LET total == SplitTotal(resolved.arg, XFILE.v)
        IN  /\ ~resolved.res.panic
            /\ resolved.res.block = SplitDec(resolved.arg).b
            /\ Split(resolved.res.p) = [b |-> total.b % 8, o |-> total.o]

\* C10 (as stated): ScriptString(i).to_string returns the i-th entry of the
\* script-string table when i < table length, fails with BadScriptString(i)
\* when i >= table length, and never panics.
C10_ToStringNeverPanics ==
    call.op = "to_string" =>
        /\ ~call.ret.panic
        /\ call.index < Len(SCRIPT_STRINGS.v) =>
              (call.ret.ok /\ call.ret.value = SCRIPT_STRINGS.v[call.index + 1])
        /\ call.index >= Len(SCRIPT_STRINGS.v) =>
              (~call.ret.ok /\ call.ret.kind = "BadScriptString"
                            /\ call.ret.index = call.index)

(***************************************************************************)
(* SpecSeek: seek_and under arbitrary predicates.  A predicate reads bytes,*)
(* calls seek_and again, fails, or returns; the callers have filtered the  *)
(* null token.                                                             *)
(***************************************************************************)
\* the sentinels, and the tokens of the first byte, the last byte, the end of
\* the payload and the byte after it
SeekTokens ==
    {FFFFFFFF, FFFFFFFE}
    \cup {FromNat(k) : k \in {1, SeekLen, SeekLen + 1, SeekLen + 2}}

SeekTargets ==
    {Start(t) : t \in SeekTokens} \cup {Current(-1), Current(1), End(0)}

\* no token of this harness makes the resolver's arithmetic overflow: the two
\* build profiles behave alike and one is explored
InitSeek ==
    /\ overflow_checks = TRUE
    /\ fs = InMemory
    /\ XFILE = Some(Pad(FromNat(1), FromNat(1), FromNat(1)))
    /\ SCRIPT_STRINGS = None
    /\ stream = [i \in 1..SeekLen |-> 64 + i]
    /\ pos \in 0..SeekLen
    /\ stack = <<>>
    /\ status = "running"
    /\ resolved = NoResolve
    /\ call = NoCall
    /\ pc = "seek"
    /\ xasset_list = None
    /\ raw_strings = <<>>
    /\ strings = <<>>
    /\ raw_assets = <<>>
    /\ deserialized_assets = <<>>

Top == stack[Len(stack)]

\* seek_and is called, by the top level or by the predicate in progress
SeekAndEnter(from) ==
    /\ status = "running"
    /\ Len(stack) < MaxDepth
    /\ LET e == seek_and_enter(from, pos, Len(stream))
       IN  /\ resolved' = e.resolve
           /\ pos' = e.pos
           /\ status' = IF e.outcome = "panic" THEN "panicked" ELSE status
           /\ stack' = IF e.outcome = "call"
                       THEN Append(stack, [from |-> from, pos |-> pos, jumped |-> e.jumped,
                                           start |-> e.pos])
                       ELSE stack
           /\ call' = [op |-> "seek_and", from |-> from, outcome |-> e.outcome,
                       before |-> pos, start |-> e.pos, stop |-> e.pos, after |-> e.pos,
                       jumped |-> e.jumped, failed |-> FALSE, depth |-> Len(stack) + 1]
    /\ UNCHANGED <<overflow_checks, fs, XFILE, SCRIPT_STRINGS, stream, pc, xasset_list,
                   raw_strings, strings, raw_assets, deserialized_assets>>

\* the predicate in progress reads a byte
PredicateRead ==
    /\ status = "running"
    /\ stack # <<>>
    /\ pos + 1 <= Len(stream)
    /\ pos' = pos + 1
    /\ call' = NoCall
    /\ resolved' = NoResolve
    /\ UNCHANGED <<overflow_checks, fs, XFILE, SCRIPT_STRINGS, stream, stack, status,
                   pc, xasset_list, raw_strings, strings, raw_assets, deserialized_assets>>

\* the predicate in progress reads past the end of the payload and unwraps the
\* error, as every predicate of the primitive readers does: the panic unwinds
\* through seek_and
PredicateAborts ==
    /\ status = "running"
    /\ stack # <<>>
    /\ pos + 1 > Len(stream)
    /\ pos' = EofPos(pos, Len(stream))
    /\ status' = "panicked"
    /\ call' = [op |-> "predicate_abort", before |-> pos]
    /\ resolved' = NoResolve
    /\ UNCHANGED <<overflow_checks, fs, XFILE, SCRIPT_STRINGS, stream, stack,
                   pc, xasset_list, raw_strings, strings, raw_assets, deserialized_assets>>

\* seek_and after its predicate returned with the cursor at cur
Returned(cur, failed) ==
    LET after == seek_and_exit(Top.from, Top.pos, cur)
        rest  == SubSeq(stack, 1, Len(stack) - 1)
    IN  /\ pos' = after
        /\ stack' = rest
        /\ call' = [op |-> "seek_and", from |-> Top.from, outcome |-> "ok",
                    before |-> Top.pos, start |-> Top.start, stop |-> cur,
                    after |-> after, jumped |-> Top.jumped, failed |-> failed,
                    depth |-> Len(stack)]
        /\ resolved' = NoResolve

\* the predicate in progress reads past the end of the payload and returns the
\* error as its value; seek_and restores and returns Ok(that value)
PredicateReportsError ==
    /\ status = "running"
    /\ stack # <<>>
    /\ pos + 1 > Len(stream)
    /\ Returned(EofPos(pos, Len(stream)), TRUE)
    /\ UNCHANGED <<overflow_checks, fs, XFILE, SCRIPT_STRINGS, stream, status,
                   pc, xasset_list, raw_strings, strings, raw_assets, deserialized_assets>>

\* the predicate in progress returns; seek_and restores and returns Ok(t)
SeekAndReturn ==
    /\ status = "running"
    /\ stack # <<>>
    /\ Returned(pos, FALSE)
    /\ UNCHANGED <<overflow_checks, fs, XFILE, SCRIPT_STRINGS, stream, status,
                   pc, xasset_list, raw_strings, strings, raw_assets, deserialized_assets>>

NextSeek ==
    \/ \E from \in SeekTargets : SeekAndEnter(from)
    \/ PredicateRead
    \/ PredicateAborts
    \/ PredicateReportsError
    \/ SeekAndReturn

SpecSeek == InitSeek /\ [][NextSeek]_vars

IsAbsolute(from) == from.kind = "Start" /\ from.p # FFFFFFFF /\ from.p # FFFFFFFE

\* C1 (as stated): for every call of seek_and in which the predicate returns
\* normally, whatever the form of the target and however many bytes it read,
\* the stream position after the call equals the position before the call.
C1_AlwaysRestored ==
    (call.op = "seek_and" /\ call.outcome = "ok") => call.after = call.before

\* C1 (amended): when the predicate returns normally, an absolute token leaves
\* the position where it was before the call, also around nested calls, which
\* unwind innermost first; an inline sentinel or a relative offset leaves it
\* advanced by the bytes the predicate consumed.
C1_RestoredIfAbsolute ==
    (call.op = "seek_and" /\ call.outcome = "ok") =>
        /\ IsAbsolute(call.from) => call.after = call.before
        /\ ~IsAbsolute(call.from) => call.after = call.before + (call.stop - call.start)

\* C1 witness: a seek_and nested in the predicate of an absolute seek_and
\* returned, after it jumped to its own absolute target and its predicate read
\* bytes there
C1_Witness ==
    /\ call.op = "seek_and"
    /\ call.outcome = "ok"
    /\ IsAbsolute(call.from)
    /\ call.depth = 2
    /\ IsAbsolute(stack[1].from)
    /\ call.stop > call.start
    /\ call.start # call.before
    /\ pos = call.before

\* C2 (as stated): if the predicate fails (reports an error or aborts its read)
\* after seek_and has jumped to an absolute target, the cursor position is
\* still restored to the position saved before the jump.
C2_RestoredOnFailure ==
    /\ (status = "panicked" /\ call.op = "predicate_abort" /\ Top.jumped) => pos = Top.pos
    /\ (call.op = "seek_and" /\ call.outcome = "ok" /\ call.failed /\ call.jumped)
           => call.after = call.before

\* C7 (as stated): seek_and performs an absolute seek only when the resolved
\* offset lies inside [0, stream_length); the predicate is never invoked at an
\* offset that is not strictly less than the stream length.
C7_SeekInsideStream ==
    /\ \A i \in 1..Len(stack) : stack[i].jumped => stack[i].start < Len(stream)
    /\ (call.op = "seek_and" /\ resolved.invoked /\ ~resolved.res.panic
            /\ ~(IsSmall(resolved.res.p) /\ ToNat(resolved.res.p) < Len(stream)))
           => (call.outcome = "panic" /\ status = "panicked")

(***************************************************************************)
(* SpecPrim: sequences of primitive reads over a payload, as a schema      *)
(* conversion issues them, with tokens, counts and element sizes drawn     *)
(* from bounded sets.                                                      *)
(***************************************************************************)
\* payloads with a different byte at every offset, without a NUL or with one
PrimStreams ==
    { [i \in 1..StreamLen |-> IF i = z THEN 0 ELSE 64 + i] : z \in {0, 2} }

PrimTokens ==
    {Zero32, FFFFFFFF, FFFFFFFE}
    \cup {FromNat(k) : k \in 1..(StreamLen + 2)}
    \cup {U32(2^13, 1)}

PrimTables ==
    { Pad(FromNat(2), FromNat(1), FromNat(1)) }

ElemSizes == {1, 2}

InitPrim ==
    /\ overflow_checks \in BOOLEAN
    /\ fs = InMemory
    /\ XFILE \in {Some(t) : t \in PrimTables}
    /\ SCRIPT_STRINGS = None
    /\ stream \in PrimStreams
    /\ pos \in 0..StreamLen
    /\ stack = <<>>
    /\ status = "running"
    /\ resolved = NoResolve
    /\ call = NoCall
    /\ pc = "prim"
    /\ xasset_list = None
    /\ raw_strings = <<>>
    /\ strings = <<>>
    /\ raw_assets = <<>>
    /\ deserialized_assets = <<>>

\* the reader op was applied to (token, size) for elements of sz bytes and returned r
Applied(op, token, size, sz, r) ==
    /\ status = "running"
    /\ pos' = r.pos
    /\ status' = IF r.panic THEN "panicked" ELSE status
    /\ resolved' = r.resolve
    /\ call' = [op |-> op, token |-> token, size |-> size, sz |-> sz, before |-> pos,
                ret |-> r]
    /\ UNCHANGED <<overflow_checks, fs, XFILE, SCRIPT_STRINGS, stream, stack, pc, xasset_list,
                   raw_strings, strings, raw_assets, deserialized_assets>>

Ptr32XFileInto ==
    \E token \in PrimTokens, sz \in ElemSizes :
        Applied("Ptr32::xfile_into", token, 1, sz, Ptr32_xfile_into(token, pos, sz))

Ptr32XFileGet ==
    \E token \in PrimTokens, sz \in ElemSizes :
        Applied("Ptr32::xfile_get", token, 1, sz, Ptr32_xfile_get(token, pos, sz))

XStringXFileInto ==
    \E token \in PrimTokens :
        Applied("XString::xfile_into", token, 1, 1, XString_xfile_into(token, pos))

FatPointerCountFirstU16ToVec ==
    \E token \in PrimTokens, size \in 0..MaxCount, sz \in ElemSizes :
        Applied("FatPointerCountFirstU16::to_vec", token, size, sz,
                FatPointerCountFirstU16_to_vec(token, size, pos, sz))

FatPointerCountFirstU32ToVec ==
    \E token \in PrimTokens, size \in 0..MaxCount, sz \in ElemSizes :
        Applied("FatPointerCountFirstU32::to_vec", token, size, sz,
                FatPointerCountFirstU32_to_vec(token, size, pos, sz))

FatPointerCountLastU16ToVec ==
    \E token \in PrimTokens, size \in 0..MaxCount, sz \in ElemSizes :
        Applied("FatPointerCountLastU16::to_vec", token, size, sz,
                FatPointerCountLastU16_to_vec(token, size, pos, sz))

FatPointerCountLastU32ToVec ==
    \E token \in PrimTokens, size \in 0..MaxCount, sz \in ElemSizes :
        Applied("FatPointerCountLastU32::to_vec", token, size, sz,
                FatPointerCountLastU32_to_vec(token, size, pos, sz))

Ptr32ArrayToVec ==
    \E token \in PrimTokens, size \in 0..MaxCount, sz \in ElemSizes :
        Applied("Ptr32Array::to_vec", token, size, sz,
                Ptr32Array_to_vec(token, size, pos, sz))

Ptr32ArrayConstToVec ==
    \E token \in PrimTokens, N \in 1..MaxCount, sz \in ElemSizes :
        Applied("Ptr32ArrayConst::to_vec", token, N, sz,
                Ptr32ArrayConst_to_vec(token, N, pos, sz))

\* a flexible array has no token: its elements follow the structure in place
FlexibleArrayU16ToVec ==
    \E count \in 0..MaxCount, sz \in ElemSizes :
        Applied("FlexibleArrayU16::to_vec", FFFFFFFF, count, sz,
                FlexibleArrayU16_to_vec(count, pos, sz))

FlexibleArrayU32ToVec ==
    \E count \in 0..MaxCount, sz \in ElemSizes :
        Applied("FlexibleArrayU32::to_vec", FFFFFFFF, count, sz,
                FlexibleArrayU32_to_vec(count, pos, sz))

NextPrim ==
    \/ Ptr32XFileInto
    \/ Ptr32XFileGet
    \/ XStringXFileInto
    \/ FatPointerCountFirstU16ToVec
    \/ FatPointerCountFirstU32ToVec
    \/ FatPointerCountLastU16ToVec
    \/ FatPointerCountLastU32ToVec
    \/ Ptr32ArrayToVec
    \/ Ptr32ArrayConstToVec
    \/ FlexibleArrayU16ToVec
    \/ FlexibleArrayU32ToVec

SpecPrim == InitPrim /\ [][NextPrim]_vars

PointerOps == {"Ptr32::xfile_into", "Ptr32::xfile_get"}

StringOps == {"XString::xfile_into"}

VecOps ==
    {"FatPointerCountFirstU16::to_vec", "FatPointerCountFirstU32::to_vec",
     "FatPointerCountLastU16::to_vec", "FatPointerCountLastU32::to_vec",
     "Ptr32Array::to_vec", "Ptr32ArrayConst::to_vec"}

IsSpecial(token) == token \in {Zero32, FFFFFFFF, FFFFFFFE}

\* whether the payload holds, at offset off, the whole referent of the last
\* call: one T for a pointer, size Ts for a fat pointer or an array, a
\* NUL-terminated string for a string
HasReferent(off) ==
    IF call.op \in StringOps
    THEN \E k \in (off + 1)..Len(stream) : stream[k] = 0
    ELSE off + call.size * call.sz <= Len(stream)

\* that referent, as the payload holds it
Referent(off) ==
    IF call.op \in StringOps
    THEN LET k == CHOOSE k \in (off + 1)..Len(stream) :
                      /\ stream[k] = 0
                      /\ \A j \in (off + 1)..(k - 1) : stream[j] # 0
         IN  [j \in 1..(k - 1 - off) |-> stream[off + j]]
    ELSE [i \in 1..call.size |->
             [j \in 1..call.sz |-> stream[off + (i - 1) * call.sz + j]]]

\* C3 (as stated): for every absolute pointer token whose resolved offset is in
\* range, Pointer<T> (Ptr32::xfile_into / xfile_get) and String return the value
\* stored at resolve(token) as a present result, and leave the cursor at the
\* position it had before the read.
C3_AbsolutePointerIsRead ==
    (call.op \in PointerOps \cup StringOps /\ ~IsSpecial(call.token)) =>
        LET total == SplitTotal(call.token, XFILE.v)
        IN  (total.b = 0 /\ total.o < Len(stream) /\ HasReferent(total.o)) =>
                /\ ~call.ret.panic
                /\ call.ret.some
                /\ call.ret.value = Referent(total.o)
                /\ call.ret.pos = call.before

\* C4 (as stated): the tokens 0xFFFFFFFF and 0xFFFFFFFE are treated identically
\* by every primitive reader: for either value the reader reads its referent
\* inline at the current cursor position and returns a present result.
C4_BothSentinelsReadInline ==
    (call.op \in PointerOps \cup StringOps \cup VecOps
        /\ call.token \in {FFFFFFFF, FFFFFFFE}
        /\ HasReferent(call.before)) =>
            /\ ~call.ret.panic
            /\ call.ret.some
            /\ call.ret.at = call.before
            /\ call.ret.value = Referent(call.before)

\* C5: for every primitive reader a token of 0x00000000 yields the absent or
\* empty result without error, whatever the accompanying count, and without
\* reading or seeking: the cursor position is unchanged.
C5_NullIsAbsent ==
    (call.op \in PointerOps \cup StringOps \cup VecOps /\ call.token = Zero32) =>
        /\ ~call.ret.panic
        /\ status = "running"
        /\ ~call.ret.some
        /\ ~call.ret.read
        /\ call.ret.value = <<>>
        /\ ~call.ret.resolve.invoked
        /\ call.ret.pos = call.before
        /\ pos = call.before

\* C5 witness: a fat pointer with a null token and a count the payload could
\* satisfy from the cursor was converted
C5_Witness ==
    /\ call.op = "FatPointerCountLastU16::to_vec"
    /\ call.token = Zero32
    /\ call.size > 0
    /\ call.before + call.size * call.sz <= Len(stream)

\* C8: in every sequence of primitive reads, convert_offset_to_ptr is never
\* invoked with one of the special tokens 0x00000000, 0xFFFFFFFF, 0xFFFFFFFE.
C8_ResolveNeverSpecial ==
    resolved.invoked => ~IsSpecial(resolved.arg)

\* C8 witness: a reader was given the sentinel 0xFFFFFFFE with a count above 0,
\* read inline and did not resolve the token
C8_Witness ==
    /\ call.op \in VecOps
    /\ call.token = FFFFFFFE
    /\ call.ret.read
    /\ call.size > 0
    /\ ~resolved.invoked

(***************************************************************************)
(* SpecMain: main's pass over an inflated payload: the XFile header, the   *)
(* XAssetList envelope, the script strings, the asset records.             *)
(***************************************************************************)
\* bincode, fixed-width little-endian: a u32 from its four bytes
deserialize_u32(b) == U32(b[3] + 256 * b[4], b[1] + 256 * b[2])

\* the four bytes a u32 is stored as
LE32(v) == <<v.lo % 256, v.lo \div 256, v.hi % 256, v.hi \div 256>>

RECURSIVE Flatten(_)
Flatten(ss) == IF ss = <<>> THEN <<>> ELSE Head(ss) \o Flatten(Tail(ss))

\* #[derive(FromPrimitive)] enum XAssetType: 0x00 ..= 0x2C
XAssetType_from_u32(n) == IF IsSmall(n) /\ ToNat(n) <= 44 THEN Some(ToNat(n)) ELSE None

\* the asset types XAssetRaw::xfile_into has a match arm for
ConvertedAssetTypes == {1, 2, 3, 4, 5, 6, 7, 8, 14, 15, 16, 18, 20, 23, 28, 29, 36, 37, 38, 39}

\* enum XAsset: the variant of asset_type around the Option r that
\* Ptr32::xfile_into returned
XAsset(asset_type, r) ==
    [panic |-> r.panic, pos |-> r.pos,
     value |-> Some([asset_type |-> asset_type, some |-> r.some])]

\* impl XFileInto<XAsset, ()> for XAssetRaw: xfile_into
XAssetRaw_xfile_into(asset, cur) ==
    LET asset_type == XAssetType_from_u32(asset.asset_type)
    IN  IF ~asset_type.set                               \* .unwrap()
        THEN [panic |-> TRUE, pos |-> cur, value |-> None]
        ELSE IF asset_type.v \notin ConvertedAssetTypes      \* unimplemented!()
        THEN [panic |-> TRUE, pos |-> cur, value |-> None]
        ELSE XAsset(asset_type.v, Ptr32_xfile_into(asset.asset_data, cur, 1))

\* the statements of main after the payload is open, in program order
main_statements_AssetsFirst ==
    <<"read_xfile", "read_xasset_list", "assets_to_vec", "assets_xfile_into",
      "strings_to_vec", "strings_xfile_into", "SCRIPT_STRINGS_set", "return">>

\* a faulty order: the XFile, with the block sizes, is read after the script
\* strings
main_statements_XFileLate ==
    <<"read_xasset_list", "strings_to_vec", "strings_xfile_into", "SCRIPT_STRINGS_set",
      "read_xfile", "assets_to_vec", "assets_xfile_into", "return">>

main_statements ==
    <<"read_xfile", "read_xasset_list", "strings_to_vec", "strings_xfile_into",
      "SCRIPT_STRINGS_set", "assets_to_vec", "assets_xfile_into", "return">>

\* the statement that follows statement s
main_next(s) ==
    LET i == CHOOSE i \in 1..Len(main_statements) : main_statements[i] = s
    IN  IF i < Len(main_statements) THEN main_statements[i + 1] ELSE "returned"

\* the payloads: an XFile header, an XAssetList envelope announcing ns script
\* strings at token stok and na assets at token atok, then ns XString tokens
\* xtok, the ns strings, and na asset records arec
HeaderLen == 36

EnvelopeLen == 16

MainTable == Pad(FromNat(HeaderLen + EnvelopeLen + 6 * MaxStrings + 9 * MaxAssets),
                 Zero32, Zero32)

\* the payload after its size word: external_size, the block sizes, the
\* envelope, the XString tokens and the strings, the asset records and the
\* inline referent of each
PayloadBody(ns, stok, xtok, na, atok, arec) ==
    LE32(FromNat(0))
    \o Flatten([i \in 1..7 |-> LE32(MainTable[i])])
    \o LE32(FromNat(ns)) \o LE32(stok) \o LE32(FromNat(na)) \o LE32(atok)
    \o Flatten([i \in 1..ns |-> LE32(xtok)])
    \o Flatten([i \in 1..ns |-> <<96 + i, 0>>])
    \o Flatten([i \in 1..na |-> LE32(arec.asset_type) \o LE32(arec.asset_data)])
    \o Flatten([i \in 1..na |-> arec.referent])

\* XFile::size is the length of the payload
Payload(ns, stok, xtok, na, atok, arec) ==
    LE32(FromNat(4 + Len(PayloadBody(ns, stok, xtok, na, atok, arec))))
    \o PayloadBody(ns, stok, xtok, na, atok, arec)

\* the token of the byte at offset off of the first block
TokenOf(off) == FromNat(off + 1)

\* asset records: a RawFile without data, a PhysPreset whose data follows
\* the records, an asset type without a match arm, an undefined asset type
AssetRecords ==
    { [asset_type |-> FromNat(36), asset_data |-> Zero32, referent |-> <<>>],
      [asset_type |-> FromNat(1),  asset_data |-> FFFFFFFF, referent |-> <<7>>],
      [asset_type |-> FromNat(40), asset_data |-> Zero32, referent |-> <<>>],
      [asset_type |-> FromNat(45), asset_data |-> Zero32, referent |-> <<>>] }

\* tokens of the asset fat pointer: null, inline, and the address of the first
\* asset record when ns script strings precede it
AssetTokens(ns) == {Zero32, FFFFFFFF, TokenOf(HeaderLen + EnvelopeLen + 6 * ns)}

Payloads ==
    UNION { { Payload(ns, stok, xtok, na, atok, arec) :
                stok \in {Zero32, FFFFFFFF, TokenOf(HeaderLen + EnvelopeLen)},
                xtok \in {Zero32, FFFFFFFF},
                na \in 0..MaxAssets,
                atok \in AssetTokens(ns),
                arec \in AssetRecords } : ns \in 0..MaxStrings }

InitMain ==
    /\ overflow_checks \in BOOLEAN
    /\ fs = InMemory
    /\ XFILE = None
    /\ SCRIPT_STRINGS = None
    /\ stream \in Payloads
    /\ pos = 0
    /\ stack = <<>>
    /\ status = "running"
    /\ resolved = NoResolve
    /\ call = NoCall
    /\ pc = main_statements[1]
    /\ xasset_list = None
    /\ raw_strings = <<>>
    /\ strings = <<>>
    /\ raw_assets = <<>>
    /\ deserialized_assets = <<>>

\* main is at statement s
At(s) == status = "running" /\ pc = s

\* the statement at pc ran: it panicked, or main moved on to statement next
Ran(panic, next) ==
    /\ status' = IF panic THEN "panicked" ELSE status
    /\ pc' = IF panic THEN pc ELSE next
    /\ UNCHANGED <<overflow_checks, fs, stream, stack, call>>

\* a read through main's handle: File::open gives a handle that reads (r is
\* what it reads); File::create gives a write-only one, whose read returns
\* Err and leaves the cursor where it was
File_read(mode, cur, r) ==
    IF mode = "write" THEN [panic |-> TRUE, pos |-> cur, value |-> <<>>] ELSE r

\* the nine words r of the XFile were read, or the read failed
XFileRead(r) ==
    /\ pos' = r.pos
    /\ XFILE' = IF r.panic \/ XFILE.set THEN XFILE
                ELSE Some([i \in 1..NumBlocks |-> deserialize_u32(r.value[2 + i])])
    /\ Ran(r.panic \/ XFILE.set, main_next(pc))

\* let xfile = bincode::deserialize_from::<_, XFile>(&mut file).unwrap();
\* XFILE.set(xfile).unwrap();
ReadXFile ==
    /\ At("read_xfile")
    /\ XFileRead(File_read(fs.file, pos, read_elems(pos, 9, 4)))
    /\ UNCHANGED <<SCRIPT_STRINGS, resolved, xasset_list, raw_strings, strings, raw_assets,
                   deserialized_assets>>

\* the four words r of the XAssetList were read, or the read failed
XAssetListRead(r) ==
    /\ pos' = r.pos
    /\ xasset_list' =
         IF r.panic THEN xasset_list
         ELSE Some([strings |-> [size |-> deserialize_u32(r.value[1]),
                                 p |-> deserialize_u32(r.value[2])],
                    assets  |-> [size |-> deserialize_u32(r.value[3]),
                                 p |-> deserialize_u32(r.value[4])]])
    /\ Ran(r.panic, main_next(pc))

\* file.read_exact(&mut xasset_list_buf).unwrap();
\* let xasset_list = bincode::deserialize::<XAssetList>(&xasset_list_buf).unwrap();
ReadXAssetList ==
    /\ At("read_xasset_list")
    /\ XAssetListRead(read_elems(pos, 4, 4))
    /\ UNCHANGED <<XFILE, SCRIPT_STRINGS, resolved, raw_strings, strings, raw_assets,
                   deserialized_assets>>

\* to_vec returned r: the XString tokens
StringsRead(r) ==
    /\ pos' = r.pos
    /\ resolved' = r.resolve
    /\ raw_strings' = [i \in 1..Len(r.value) |-> deserialize_u32(r.value[i])]
    /\ Ran(r.panic, main_next(pc))

\* xasset_list.strings.to_vec(&mut file).into_iter()
StringsToVec ==
    /\ At("strings_to_vec")
    /\ xasset_list.set
    /\ StringsRead(FatPointerCountFirstU32_to_vec(xasset_list.v.strings.p,
                                                  ToNat(xasset_list.v.strings.size), pos, 4))
    /\ UNCHANGED <<XFILE, SCRIPT_STRINGS, xasset_list, strings, raw_assets,
                   deserialized_assets>>

\* XString::xfile_into returned r: the next string of the table
StringConverted(r) ==
    /\ pos' = r.pos
    /\ resolved' = r.resolve
    /\ strings' = IF r.panic THEN strings ELSE Append(strings, r.value)
    /\ Ran(r.panic, pc)

\* .map(|s| s.xfile_into(&mut file, ())): the next string
StringXFileInto ==
    /\ At("strings_xfile_into")
    /\ Len(strings) < Len(raw_strings)
    /\ StringConverted(XString_xfile_into(raw_strings[Len(strings) + 1], pos))
    /\ UNCHANGED <<XFILE, SCRIPT_STRINGS, xasset_list, raw_strings, raw_assets,
                   deserialized_assets>>

\* .collect::<Vec<_>>(): the iterator is exhausted
StringsCollected ==
    /\ At("strings_xfile_into")
    /\ Len(strings) = Len(raw_strings)
    /\ Ran(FALSE, main_next(pc))
    /\ UNCHANGED <<XFILE, SCRIPT_STRINGS, pos, resolved, xasset_list, raw_strings, strings,
                   raw_assets, deserialized_assets>>

\* SCRIPT_STRINGS.set(strings).unwrap();
ScriptStringsSet ==
    /\ At("SCRIPT_STRINGS_set")
    /\ SCRIPT_STRINGS' = IF SCRIPT_STRINGS.set THEN SCRIPT_STRINGS ELSE Some(strings)
    /\ Ran(SCRIPT_STRINGS.set, main_next(pc))
    /\ UNCHANGED <<XFILE, pos, resolved, xasset_list, raw_strings, strings, raw_assets,
                   deserialized_assets>>

\* to_vec returned r: the XAssetRaw records
AssetsRead(r) ==
    /\ pos' = r.pos
    /\ resolved' = r.resolve
    /\ raw_assets' =
         [i \in 1..Len(r.value) |->
             [asset_type |-> deserialize_u32(SubSeq(r.value[i], 1, 4)),
              asset_data |-> deserialize_u32(SubSeq(r.value[i], 5, 8))]]
    /\ Ran(r.panic, main_next(pc))

\* let assets = xasset_list.assets.to_vec(&mut file);
AssetsToVec ==
    /\ At("assets_to_vec")
    /\ xasset_list.set
    /\ AssetsRead(FatPointerCountFirstU32_to_vec(xasset_list.v.assets.p,
                                                 ToNat(xasset_list.v.assets.size), pos, 8))
    /\ UNCHANGED <<XFILE, SCRIPT_STRINGS, xasset_list, raw_strings, strings,
                   deserialized_assets>>

\* XAssetRaw::xfile_into returned r: deserialized_assets.push(a)
AssetConverted(r) ==
    /\ pos' = r.pos
    /\ deserialized_assets' =
         IF r.panic THEN deserialized_assets ELSE Append(deserialized_assets, r.value.v)
    /\ Ran(r.panic, pc)

\* for asset in assets { let a = asset.xfile_into(&mut file, ()); deserialized_assets.push(a); }
AssetXFileInto ==
    /\ At("assets_xfile_into")
    /\ Len(deserialized_assets) < Len(raw_assets)
    /\ AssetConverted(XAssetRaw_xfile_into(raw_assets[Len(deserialized_assets) + 1], pos))
    /\ UNCHANGED <<XFILE, SCRIPT_STRINGS, resolved, xasset_list, raw_strings, strings,
                   raw_assets>>

\* the for loop ends
AssetsDone ==
    /\ At("assets_xfile_into")
    /\ Len(deserialized_assets) = Len(raw_assets)
    /\ Ran(FALSE, main_next(pc))
    /\ UNCHANGED <<XFILE, SCRIPT_STRINGS, pos, resolved, xasset_list, raw_strings, strings,
                   raw_assets, deserialized_assets>>

\* main returns
Return ==
    /\ At("return")
    /\ status' = "done"
    /\ pc' = main_next(pc)
    /\ UNCHANGED <<overflow_checks, fs, XFILE, SCRIPT_STRINGS, stream, pos, stack, resolved, call,
                   xasset_list, raw_strings, strings, raw_assets, deserialized_assets>>

NextMain ==
    \/ ReadXFile
    \/ ReadXAssetList
    \/ StringsToVec
    \/ StringXFileInto
    \/ StringsCollected
    \/ ScriptStringsSet
    \/ AssetsToVec
    \/ AssetXFileInto
    \/ AssetsDone
    \/ Return

SpecMain == InitMain /\ [][NextMain]_vars

\* an asset record has been read or is being converted
AssetWorkStarted ==
    \/ raw_assets # <<>>
    \/ deserialized_assets # <<>>
    \/ pc = "assets_xfile_into"

\* C9: in every pass, when the first asset record is read or converted the
\* script-string table is stored and complete: every entry the envelope
\* announces has been read and converted, and the table holds them all.
C9_TableBeforeAssets ==
    AssetWorkStarted =>
        /\ SCRIPT_STRINGS.set
        /\ SCRIPT_STRINGS.v = strings
        /\ Len(strings) = Len(raw_strings)
        /\ xasset_list.v.strings.p # Zero32 =>
               Len(raw_strings) = ToNat(xasset_list.v.strings.size)

\* C9 witness: an asset has been converted after a table of two non-empty
\* strings was stored
C9_Witness ==
    /\ deserialized_assets # <<>>
    /\ SCRIPT_STRINGS.set
    /\ Len(SCRIPT_STRINGS.v) >= 2
    /\ \A i \in 1..Len(SCRIPT_STRINGS.v) : SCRIPT_STRINGS.v[i] # <<>>

\* C14 (as stated): whenever the pass completes, the number of decoded assets
\* equals the count field of the asset fat pointer of the envelope, whatever
\* the value of that fat pointer's token.
C14_AssetCountAlways ==
    status = "done" => Len(deserialized_assets) = ToNat(xasset_list.v.assets.size)

\* C14 (amended): whenever the pass completes, the number of decoded assets
\* equals the count field of the asset fat pointer when its token is not null,
\* and is zero when the token is null.
C14_AssetCountUnlessNull ==
    status = "done" =>
        Len(deserialized_assets) =
            IF xasset_list.v.assets.p = Zero32 THEN 0 ELSE ToNat(xasset_list.v.assets.size)

\* C14 witness: a pass completed that decoded two assets through an absolute token
C14_Witness ==
    /\ status = "done"
    /\ xasset_list.v.assets.p \notin {Zero32, FFFFFFFF, FFFFFFFE}
    /\ ToNat(xasset_list.v.assets.size) = 2
    /\ Len(deserialized_assets) = 2

(***************************************************************************)
(* The library API: the weapon schema conversions, the asset dispatcher,   *)
(* the header checks and the platform classification, each applied to      *)
(* enumerated inputs.                                                      *)
(***************************************************************************)
MaxTags == 2       \* entries of a script-string handle array (32 and 20 in the schemas)

\* Result<String>::unwrap_or_default: the value, or the empty string on Err
Result_unwrap_or_default(r) == IF r.ok THEN r.value ELSE <<>>

\* Vec<String>::try_into::<[String; N]>().unwrap_or_default()
try_into_unwrap_or_default(v, N) == IF Len(v) = N THEN v ELSE [k \in 1..N |-> <<>>]

\* self.hide_tags.to_vec(de)?.into_iter()
\*     .map(|s| XString(s.to_string(de).unwrap_or_default())).collect()
\* r is the result of to_vec(de)
map_to_string(r, at) ==
    IF ~r.ok THEN r
    ELSE [ok |-> TRUE, panic |-> FALSE,
          value |-> [k \in DOMAIN r.value |->
                        Result_unwrap_or_default(ScriptString_to_string(r.value[k], at))]]

\* WeaponVariantDefRaw::xfile_deserialize_into, the hide_tags field
WeaponVariantDefRaw_hide_tags(r, at) == map_to_string(r, at)

\* WeaponDefRaw::xfile_deserialize_into, the notetrack_sound_map_keys and
\* notetrack_sound_map_values fields
WeaponDefRaw_notetrack_sound_map(is_null, r, at) ==
    IF is_null THEN [ok |-> TRUE, panic |-> FALSE, value |-> None]
    ELSE IF ~map_to_string(r, at).ok THEN map_to_string(r, at)
    ELSE [ok |-> TRUE, panic |-> FALSE,
          value |-> Some(try_into_unwrap_or_default(map_to_string(r, at).value, MaxTags))]

\* WeaponDefRaw::xfile_deserialize_into, the explosion_tag field
WeaponDefRaw_explosion_tag(i, at) ==
    [ok |-> TRUE, panic |-> FALSE,
     value |-> Result_unwrap_or_default(ScriptString_to_string(i, at))]

\* results of Ptr32ArrayConst<ScriptString, N>::to_vec(de): N handles, or an error
HandleArrays ==
    { [ok |-> TRUE, panic |-> FALSE, value |-> h] : h \in [1..MaxTags -> 0..MaxIndex] }
    \cup { [ok |-> FALSE, panic |-> FALSE, kind |-> "Io"] }

\* enum XAssetType: the discriminants 0x00 ..= 0x2C
XAssetTypes == 0..44

\* xasset.rs, the match of XAssetRaw::xfile_deserialize_into: the XAssetGeneric
\* variant the arm of each XAssetType builds, "_" for the types left to the
\* default arm; entry t + 1 is the arm of discriminant t
XAssetGeneric_arms ==
    << "_", "PhysPreset", "PhysConstraints", "DestructibleDef", "XAnimParts", "XModel",
       "Material", "TechniqueSet", "Image", "Sound", "SoundPatch", "ClipMap", "ClipMapPVS",
       "ComWorld", "GameWorldSp", "GameWorldMp", "MapEnts", "GfxWorld", "LightDef", "_",
       "Font", "MenuList", "Menu", "LocalizeEntry", "Weapon", "_", "_", "SndDriverGlobals",
       "Fx", "ImpactFx", "_", "_", "_", "_", "_", "_", "RawFile", "StringTable",
       "PackIndex", "XGlobals", "Ddl", "Glasses", "EmblemSet", "_", "_" >>

\* impl XFileDeserializeInto<XAssetGeneric<MAX_LOCAL_CLIENTS>, ()> for XAssetRaw;
\* r is the result of the schema reader the arm invokes
XAssetRaw_xfile_deserialize_into(asset_type, at, r) ==
    IF ~XAssetType_from_u32(asset_type).set
    THEN [ok |-> FALSE, panic |-> FALSE, kind |-> "InvalidXAssetType",
          asset_type |-> asset_type, off |-> at, arm |-> "none"]
    ELSE IF XAssetGeneric_arms[XAssetType_from_u32(asset_type).v + 1] = "_"
    THEN [ok |-> FALSE, panic |-> FALSE, kind |-> "UnusedXAssetType",
          asset_type |-> XAssetType_from_u32(asset_type).v, off |-> at, arm |-> "_"]
    ELSE IF ~r.ok
    THEN [ok |-> FALSE, panic |-> FALSE, kind |-> r.kind,
          arm |-> XAssetGeneric_arms[XAssetType_from_u32(asset_type).v + 1]]
    ELSE [ok |-> TRUE, panic |-> FALSE, kind |-> "none",
          arm |-> XAssetGeneric_arms[XAssetType_from_u32(asset_type).v + 1],
          value |-> r.value]

\* asset_type words: every discriminant, the first values past the enum, and
\* words with high bits set
AssetTypeWords ==
    { FromNat(n) : n \in 0..46 } \cup { U32(1, 0), U32(1, 5), U32(2^15, 1), FFFFFFFF }

\* results of a schema reader
ReaderResults ==
    { [ok |-> TRUE, panic |-> FALSE, value |-> "decoded"],
      [ok |-> FALSE, panic |-> FALSE, kind |-> "Io"] }

\* a faulty variant: the last byte is not compared
XFileHeader_magic_is_valid_SevenBytes(magic) ==
    /\ magic[1] = 73 /\ magic[2] = 87 /\ magic[3] = 102 /\ magic[4] = 102
    /\ (magic[5] = 117 \/ magic[5] = 48)
    /\ magic[6] = 49 /\ magic[7] = 48

\* lib.rs, XFileHeader::magic_is_valid; magic[k] is the byte self.magic[k - 1]
\* and 73, 87, 102, 117, 48, 49 are b'I', b'W', b'f', b'u', b'0', b'1'
XFileHeader_magic_is_valid(magic) ==
    /\ magic[1] = 73 /\ magic[2] = 87 /\ magic[3] = 102 /\ magic[4] = 102
    /\ (magic[5] = 117 \/ magic[5] = 48)
    /\ magic[6] = 49 /\ magic[7] = 48 /\ magic[8] = 48

\* main.rs, xfile_header_magic_is_valid
xfile_header_magic_is_valid(magic) ==
    /\ magic[1] = 73 /\ magic[2] = 87 /\ magic[3] = 102 /\ magic[4] = 102
    /\ (magic[5] = 117 \/ magic[5] = 48)
    /\ magic[6] = 49 /\ magic[7] = 48 /\ magic[8] = 48

\* const XFILE_VERSION: u32 = 0x000001D9
XFILE_VERSION == U32(0, 473)

\* a faulty variant: every version is accepted
xfile_is_correct_version_Any(version) == TRUE

\* main.rs, xfile_is_correct_version
xfile_is_correct_version(version) == version = XFILE_VERSION

\* main.rs, decompress_xfile up to "Header verified": the two assert!s on the
\* deserialized header
decompress_xfile(header) ==
    [ok |-> xfile_header_magic_is_valid(header.magic) /\ xfile_is_correct_version(header.version),
     panic |-> ~(xfile_header_magic_is_valid(header.magic)
                 /\ xfile_is_correct_version(header.version)),
     magic_is_valid |-> xfile_header_magic_is_valid(header.magic)]

\* b"IWffu100" and b"IWff0100"
IWffu100 == <<73, 87, 102, 102, 117, 49, 48, 48>>

IWff0100 == <<73, 87, 102, 102, 48, 49, 48, 48>>

\* header magics: the two valid ones, each with one byte replaced by one of
\* 0x00, '0', '1', 'I', 'U', 'W', 'f', 'u', 0xFF, and each with two neighbouring
\* bytes exchanged
Magics ==
    { [m EXCEPT ![k] = b] : m \in {IWffu100, IWff0100}, k \in 1..8,
                            b \in {0, 48, 49, 73, 85, 87, 102, 117, 255} }
    \cup { [m EXCEPT ![k] = m[k + 1], ![k + 1] = m[k]] : m \in {IWffu100, IWff0100}, k \in 1..7 }

\* version words: 0x000001D9, its byte swap 0xD9010000, and neighbours
VersionWords ==
    { XFILE_VERSION, U32(55553, 0), U32(0, 472), U32(0, 474), Zero32, U32(473, 0),
      U32(0, 55553), U32(55553, 473), FFFFFFFF }

\* enum XFilePlatform
XFilePlatforms == {"Windows", "macOS", "Xbox360", "PS3", "Wii"}

\* u32::swap_bytes
swap_bytes(v) ==
    [hi |-> (v.lo % 256) * 256 + v.lo \div 256, lo |-> (v.hi % 256) * 256 + v.hi \div 256]

\* const XFILE_VERSION_LE: u32 = XFILE_VERSION.to_le(); u32::to_le is the
\* identity on a little-endian target and swap_bytes on a big-endian one
XFILE_VERSION_LE(target_le) == IF target_le THEN XFILE_VERSION ELSE swap_bytes(XFILE_VERSION)

\* const XFILE_VERSION_BE: u32 = XFILE_VERSION.to_be()
XFILE_VERSION_BE(target_le) == IF target_le THEN swap_bytes(XFILE_VERSION) ELSE XFILE_VERSION

\* XFileVersion::from_u32
XFileVersion_from_u32(value, target_le) ==
    IF value = XFILE_VERSION_LE(target_le) THEN Some("LE")
    ELSE IF value = XFILE_VERSION_BE(target_le) THEN Some("BE")
    ELSE None

\* XFileVersion::from_platform; Wii => unreachable!()
XFileVersion_from_platform(platform) ==
    IF platform \in {"Windows", "macOS"} THEN [panic |-> FALSE, value |-> "LE"]
    ELSE IF platform \in {"Xbox360", "PS3"} THEN [panic |-> FALSE, value |-> "BE"]
    ELSE [panic |-> TRUE, value |-> "unreachable"]

\* XFileVersion::as_u32
XFileVersion_as_u32(self, target_le) ==
    IF self = "LE" THEN XFILE_VERSION_LE(target_le) ELSE XFILE_VERSION_BE(target_le)

\* XFileVersion::is_valid
XFileVersion_is_valid(version, platform, target_le) ==
    IF XFileVersion_from_platform(platform).panic
    THEN [ok |-> FALSE, panic |-> TRUE, value |-> FALSE]
    ELSE [ok |-> TRUE, panic |-> FALSE,
          value |-> (IF XFileVersion_from_u32(version, target_le).set
                     THEN XFileVersion_as_u32(XFileVersion_from_u32(version, target_le).v,
                                              target_le)
                     ELSE FFFFFFFF)
                    = XFileVersion_as_u32(XFileVersion_from_platform(platform).value, target_le)]

\* XFilePlatform::is_le; Wii => unreachable!()
XFilePlatform_is_le(self) ==
    IF self \in {"Windows", "macOS"} THEN [ok |-> TRUE, panic |-> FALSE, value |-> TRUE]
    ELSE IF self \in {"Xbox360", "PS3"} THEN [ok |-> TRUE, panic |-> FALSE, value |-> FALSE]
    ELSE [ok |-> FALSE, panic |-> TRUE, value |-> FALSE]

\* a faulty variant: the branches compare with the platform's own byte order
XFileVersion_is_other_endian_Same(version, platform, target_le) ==
    [XFilePlatform_is_le(platform) EXCEPT
        !.value = ~XFilePlatform_is_le(platform).panic /\
                  IF XFilePlatform_is_le(platform).value
                  THEN version = XFileVersion_as_u32("LE", target_le)
                  ELSE version = XFileVersion_as_u32("BE", target_le)]

\* XFileVersion::is_other_endian
XFileVersion_is_other_endian(version, platform, target_le) ==
    [XFilePlatform_is_le(platform) EXCEPT
        !.value = ~XFilePlatform_is_le(platform).panic /\
                  IF XFilePlatform_is_le(platform).value
                  THEN version = XFileVersion_as_u32("BE", target_le)
                  ELSE version = XFileVersion_as_u32("LE", target_le)]

\* XFilePlatform::is_be
XFilePlatform_is_be(self) ==
    [XFilePlatform_is_le(self) EXCEPT
        !.value = ~XFilePlatform_is_le(self).panic /\ ~XFilePlatform_is_le(self).value]

\* pub fn XFileHeader::new(platform)
XFileHeader_new(platform, target_le) ==
    IF XFileVersion_from_platform(platform).panic
    THEN [ok |-> FALSE, panic |-> TRUE, value |-> None]
    ELSE [ok |-> TRUE, panic |-> FALSE,
          value |-> Some([magic |-> IWffu100,
                          version |-> XFileVersion_as_u32(
                                          XFileVersion_from_platform(platform).value,
                                          target_le)])]

\* a faulty variant: PS3 is missing from the console arm
XFilePlatform_is_console_NoPS3(self) == self \in {"Xbox360", "Wii"}

\* XFilePlatform::is_console
XFilePlatform_is_console(self) == self \in {"Xbox360", "PS3", "Wii"}

\* XFilePlatform::is_pc
XFilePlatform_is_pc(self) == ~XFilePlatform_is_console(self)

\* XAsset::try_get: Self::PC(XAssetGeneric<1>) or Self::Console(XAssetGeneric<4>)
\* around what xfile_deserialize_into returned, r
XAsset_try_get(r, platform) ==
    IF ~r.ok THEN r
    ELSE IF XFilePlatform_is_pc(platform)
    THEN [ok |-> TRUE, panic |-> FALSE, variant |-> "PC", MAX_LOCAL_CLIENTS |-> 1, value |-> r]
    ELSE [ok |-> TRUE, panic |-> FALSE, variant |-> "Console", MAX_LOCAL_CLIENTS |-> 4,
          value |-> r]

InitLib ==
    /\ overflow_checks \in BOOLEAN
    /\ fs = InMemory
    /\ XFILE = None
    /\ SCRIPT_STRINGS \in {Some(t) : t \in ScriptTables}
    /\ stream = <<>>
    /\ pos = 0
    /\ stack = <<>>
    /\ status = "running"
    /\ resolved = NoResolve
    /\ call = NoCall
    /\ pc = "lib"
    /\ xasset_list = None
    /\ raw_strings = <<>>
    /\ strings = <<>>
    /\ raw_assets = <<>>
    /\ deserialized_assets = <<>>

\* an operation of the library was applied to args, with the cursor at args.at,
\* and returned ret
LibCall(op, args, ret) ==
    /\ status = "running"
    /\ call' = [op |-> op, args |-> args, ret |-> ret]
    /\ status' = IF ret.panic THEN "panicked" ELSE status
    /\ UNCHANGED <<overflow_checks, fs, XFILE, SCRIPT_STRINGS, stream, pos, stack, resolved,
                   pc, xasset_list, raw_strings, strings, raw_assets, deserialized_assets>>

\* the library dispatcher applied to a record of type word t
XAssetRawXFileDeserializeInto(t, r) ==
    LibCall("xfile_deserialize_into", [at |-> pos, asset_type |-> t, reader |-> r],
            XAssetRaw_xfile_deserialize_into(t, pos, r))

\* the dispatcher of main.rs applied to a record of type word t and a null pointer
XAssetRawXFileInto(t) ==
    LibCall("xfile_into", [at |-> pos, asset_type |-> t],
            [ok |-> ~XAssetRaw_xfile_into([asset_type |-> t, asset_data |-> Zero32], pos).panic,
             panic |-> XAssetRaw_xfile_into([asset_type |-> t, asset_data |-> Zero32], pos).panic,
             kind |-> "none",
             arm |-> IF XAssetRaw_xfile_into([asset_type |-> t, asset_data |-> Zero32], pos).panic
                     THEN "none" ELSE "arm"])

HideTags(r) ==
    LibCall("hide_tags", [at |-> pos, handles |-> r], WeaponVariantDefRaw_hide_tags(r, pos))

NotetrackSoundMapKeys(is_null, r) ==
    LibCall("notetrack_sound_map_keys", [at |-> pos, handles |-> r, is_null |-> is_null],
            WeaponDefRaw_notetrack_sound_map(is_null, r, pos))

NotetrackSoundMapValues(is_null, r) ==
    LibCall("notetrack_sound_map_values", [at |-> pos, handles |-> r, is_null |-> is_null],
            WeaponDefRaw_notetrack_sound_map(is_null, r, pos))

ExplosionTag(i) ==
    LibCall("explosion_tag",
            [at |-> pos, handles |-> [ok |-> TRUE, panic |-> FALSE, value |-> <<i>>]],
            WeaponDefRaw_explosion_tag(i, pos))

NextLib ==
    \/ \E r \in HandleArrays : HideTags(r)
    \/ \E r \in HandleArrays, n \in BOOLEAN : NotetrackSoundMapKeys(n, r)
    \/ \E r \in HandleArrays, n \in BOOLEAN : NotetrackSoundMapValues(n, r)
    \/ \E i \in 0..MaxIndex : ExplosionTag(i)
    \/ \E t \in AssetTypeWords, r \in ReaderResults : XAssetRawXFileDeserializeInto(t, r)
    \/ \E t \in AssetTypeWords : XAssetRawXFileInto(t)

SpecLib == InitLib /\ [][NextLib]_vars

(***************************************************************************)
(* The container header and the platform: the checks made on a header      *)
(* before any payload is read, applied to enumerated headers, version      *)
(* words and platforms.                                                    *)
(***************************************************************************)
InitHeader ==
    /\ overflow_checks \in BOOLEAN
    /\ fs = InMemory
    /\ XFILE = None
    /\ SCRIPT_STRINGS = None
    /\ stream = <<>>
    /\ pos = 0
    /\ stack = <<>>
    /\ status = "running"
    /\ resolved = NoResolve
    /\ call = NoCall
    /\ pc = "header"
    /\ xasset_list = None
    /\ raw_strings = <<>>
    /\ strings = <<>>
    /\ raw_assets = <<>>
    /\ deserialized_assets = <<>>

\* XFileHeader::magic_is_valid on a header of magic m
MagicIsValid(m) ==
    /\ status = "running"
    /\ call' = [op |-> "magic_is_valid", args |-> [magic |-> m],
                ret |-> [ok |-> TRUE, panic |-> FALSE, value |-> XFileHeader_magic_is_valid(m)]]
    /\ UNCHANGED <<overflow_checks, fs, XFILE, SCRIPT_STRINGS, stream, pos, stack, status, resolved,
                   pc, xasset_list, raw_strings, strings, raw_assets, deserialized_assets>>

\* decompress_xfile on a file whose header has magic m and version v
DecompressXFile(m, v) ==
    /\ status = "running"
    /\ call' = [op |-> "decompress_xfile", args |-> [magic |-> m, version |-> v],
                ret |-> decompress_xfile([magic |-> m, version |-> v])]
    /\ status' = IF call'.ret.panic THEN "panicked" ELSE status
    /\ UNCHANGED <<overflow_checks, fs, XFILE, SCRIPT_STRINGS, stream, pos, stack, resolved,
                   pc, xasset_list, raw_strings, strings, raw_assets, deserialized_assets>>

\* XFileVersion::is_valid(v, p) in a build for a little-endian (t) or a
\* big-endian (~t) target
XFileVersionIsValid(v, p, t) ==
    /\ status = "running"
    /\ call' = [op |-> "is_valid", args |-> [version |-> v, platform |-> p, target_le |-> t],
                ret |-> XFileVersion_is_valid(v, p, t)]
    /\ status' = IF call'.ret.panic THEN "panicked" ELSE status
    /\ UNCHANGED <<overflow_checks, fs, XFILE, SCRIPT_STRINGS, stream, pos, stack, resolved,
                   pc, xasset_list, raw_strings, strings, raw_assets, deserialized_assets>>

\* XFileVersion::is_other_endian(v, p)
XFileVersionIsOtherEndian(v, p, t) ==
    /\ status = "running"
    /\ call' = [op |-> "is_other_endian",
                args |-> [version |-> v, platform |-> p, target_le |-> t],
                ret |-> XFileVersion_is_other_endian(v, p, t)]
    /\ status' = IF call'.ret.panic THEN "panicked" ELSE status
    /\ UNCHANGED <<overflow_checks, fs, XFILE, SCRIPT_STRINGS, stream, pos, stack, resolved,
                   pc, xasset_list, raw_strings, strings, raw_assets, deserialized_assets>>

\* XFileHeader::new(p)
XFileHeaderNew(p, t) ==
    /\ status = "running"
    /\ call' = [op |-> "XFileHeader::new", args |-> [platform |-> p, target_le |-> t],
                ret |-> XFileHeader_new(p, t)]
    /\ status' = IF call'.ret.panic THEN "panicked" ELSE status
    /\ UNCHANGED <<overflow_checks, fs, XFILE, SCRIPT_STRINGS, stream, pos, stack, resolved,
                   pc, xasset_list, raw_strings, strings, raw_assets, deserialized_assets>>

\* p.is_le()
XFilePlatformIsLe(p) ==
    /\ status = "running"
    /\ call' = [op |-> "is_le", args |-> [platform |-> p], ret |-> XFilePlatform_is_le(p)]
    /\ status' = IF call'.ret.panic THEN "panicked" ELSE status
    /\ UNCHANGED <<overflow_checks, fs, XFILE, SCRIPT_STRINGS, stream, pos, stack, resolved,
                   pc, xasset_list, raw_strings, strings, raw_assets, deserialized_assets>>

\* p.is_be()
XFilePlatformIsBe(p) ==
    /\ status = "running"
    /\ call' = [op |-> "is_be", args |-> [platform |-> p], ret |-> XFilePlatform_is_be(p)]
    /\ status' = IF call'.ret.panic THEN "panicked" ELSE status
    /\ UNCHANGED <<overflow_checks, fs, XFILE, SCRIPT_STRINGS, stream, pos, stack, resolved,
                   pc, xasset_list, raw_strings, strings, raw_assets, deserialized_assets>>

\* p.is_console()
XFilePlatformIsConsole(p) ==
    /\ status = "running"
    /\ call' = [op |-> "is_console", args |-> [platform |-> p],
                ret |-> [ok |-> TRUE, panic |-> FALSE, value |-> XFilePlatform_is_console(p)]]
    /\ UNCHANGED <<overflow_checks, fs, XFILE, SCRIPT_STRINGS, stream, pos, stack, status, resolved,
                   pc, xasset_list, raw_strings, strings, raw_assets, deserialized_assets>>

\* p.is_pc()
XFilePlatformIsPc(p) ==
    /\ status = "running"
    /\ call' = [op |-> "is_pc", args |-> [platform |-> p],
                ret |-> [ok |-> TRUE, panic |-> FALSE, value |-> XFilePlatform_is_pc(p)]]
    /\ UNCHANGED <<overflow_checks, fs, XFILE, SCRIPT_STRINGS, stream, pos, stack, status, resolved,
                   pc, xasset_list, raw_strings, strings, raw_assets, deserialized_assets>>

\* XAsset::try_get(de, xasset_raw, p) on a record of type word t whose schema
\* reader returns r
XAssetTryGet(t, r, p) ==
    /\ status = "running"
    /\ call' = [op |-> "try_get", args |-> [platform |-> p, asset_type |-> t, reader |-> r],
                ret |-> XAsset_try_get(XAssetRaw_xfile_deserialize_into(t, pos, r), p)]
    /\ UNCHANGED <<overflow_checks, fs, XFILE, SCRIPT_STRINGS, stream, pos, stack, status, resolved,
                   pc, xasset_list, raw_strings, strings, raw_assets, deserialized_assets>>

NextHeader ==
    \/ \E m \in Magics : MagicIsValid(m)
    \/ \E m \in Magics, v \in {XFILE_VERSION, U32(55553, 0)} : DecompressXFile(m, v)
    \/ \E v \in VersionWords, p \in XFilePlatforms, t \in BOOLEAN : XFileVersionIsValid(v, p, t)
    \/ \E v \in VersionWords, p \in XFilePlatforms, t \in BOOLEAN :
           XFileVersionIsOtherEndian(v, p, t)
    \/ \E p \in XFilePlatforms, t \in BOOLEAN : XFileHeaderNew(p, t)
    \/ \E p \in XFilePlatforms : XFilePlatformIsLe(p)
    \/ \E p \in XFilePlatforms : XFilePlatformIsBe(p)
    \/ \E p \in XFilePlatforms : XFilePlatformIsConsole(p)
    \/ \E p \in XFilePlatforms : XFilePlatformIsPc(p)
    \/ \E t \in {FromNat(0), FromNat(17), FromNat(45)}, r \in ReaderResults,
          p \in XFilePlatforms : XAssetTryGet(t, r, p)

SpecHeader == InitHeader /\ [][NextHeader]_vars

WeaponOps ==
    {"hide_tags", "notetrack_sound_map_keys", "notetrack_sound_map_values", "explosion_tag"}

\* the conversion decoded the handles of its field
DecodesHandles ==
    /\ call.op \in WeaponOps
    /\ call.args.handles.ok
    /\ call.op \in {"notetrack_sound_map_keys", "notetrack_sound_map_values"} =>
           ~call.args.is_null

\* C11 (as stated): whenever a weapon schema conversion (hide_tags, notetrack
\* keys and values, explosion_tag) meets a ScriptString handle i with
\* i >= script_string_count, the conversion fails with BadScriptString
\* instead of returning a decoded value.
C11_BadHandleFails ==
    (/\ DecodesHandles
     /\ \E k \in DOMAIN call.args.handles.value :
            call.args.handles.value[k] >= Len(SCRIPT_STRINGS.v))
    => (~call.ret.ok /\ call.ret.kind = "BadScriptString")

DispatchOps == {"xfile_deserialize_into", "xfile_into"}

\* the type word of the dispatched record is a discriminant of XAssetType
IsDefinedType == IsSmall(call.args.asset_type) /\ ToNat(call.args.asset_type) \in XAssetTypes

\* C12 (as stated): for every 32-bit asset_type the dispatcher returns
\* InvalidXAssetType(asset_type) when the value is not a defined XAssetType
\* variant, UnusedXAssetType(variant) when it is a defined variant without a
\* schema reader, and panics on neither.
C12_DispatchNeverPanics ==
    call.op \in DispatchOps =>
        /\ ~call.ret.panic
        /\ ~IsDefinedType =>
               /\ ~call.ret.ok
               /\ call.ret.kind = "InvalidXAssetType"
               /\ call.ret.asset_type = call.args.asset_type
        /\ (IsDefinedType /\ call.ret.arm \in {"_", "none"}) =>
               /\ ~call.ret.ok
               /\ call.ret.kind = "UnusedXAssetType"
               /\ call.ret.asset_type = ToNat(call.args.asset_type)

\* C13 (as stated): every defined variant of XAssetType (0x00..0x2C) is routed
\* to its own schema reader; no defined tag is handled by a default arm.
C13_NoDefaultArm ==
    (call.op = "xfile_deserialize_into" /\ IsDefinedType) =>
        /\ call.ret.arm # "_"
        /\ call.ret.kind # "UnusedXAssetType"

\* C15: for every 8-byte magic, magic_is_valid (lib.rs) and
\* xfile_header_magic_is_valid (main.rs) hold if and only if the bytes are
\* 'I','W','f','f', then 'u' or '0', then '1','0','0' in that order, and a
\* header with any other magic is rejected.
C15_MagicIsValidIff ==
    /\ call.op = "magic_is_valid" =>
           (call.ret.value <=> call.args.magic \in {IWffu100, IWff0100})
    /\ call.op = "decompress_xfile" =>
           /\ call.ret.magic_is_valid <=> call.args.magic \in {IWffu100, IWff0100}
           /\ call.args.magic \notin {IWffu100, IWff0100} => ~call.ret.ok

\* C15 witness: a magic whose last byte alone is wrong was found invalid
C15_Witness ==
    /\ call.op = "magic_is_valid"
    /\ call.args.magic = [IWff0100 EXCEPT ![8] = 49]
    /\ ~call.ret.value

\* the bytes of the word v in the memory of the target
NativeBytes(v, target_le) ==
    IF target_le THEN LE32(v) ELSE <<LE32(v)[4], LE32(v)[3], LE32(v)[2], LE32(v)[1]>>

\* the four bytes of 0x000001D9 in the byte order of platform p
VersionBytes(p) ==
    IF p \in {"Windows", "macOS"} THEN <<217, 1, 0, 0>> ELSE <<0, 0, 1, 217>>

\* the four bytes of 0x000001D9 in the byte order opposite to that of platform p
SwappedVersionBytes(p) ==
    IF p \in {"Windows", "macOS"} THEN <<0, 0, 1, 217>> ELSE <<217, 1, 0, 0>>

\* C16: for every platform p in {Windows, macOS, Xbox360, PS3} and every
\* 32-bit version word v, is_valid(v, p) holds iff v is 0x000001D9 in p's byte
\* order and is_other_endian(v, p) holds iff v is 0x000001D9 in the opposite
\* byte order; the two never hold of the same v and p, and any other v
\* satisfies neither.
C16_VersionByteOrder ==
    (call.op \in {"is_valid", "is_other_endian"} /\ call.args.platform # "Wii") =>
        /\ ~call.ret.panic
        /\ call.op = "is_valid" =>
               (call.ret.value <=>
                    NativeBytes(call.args.version, call.args.target_le)
                        = VersionBytes(call.args.platform))
        /\ call.op = "is_other_endian" =>
               (call.ret.value <=>
                    NativeBytes(call.args.version, call.args.target_le)
                        = SwappedVersionBytes(call.args.platform))
        /\ ~(/\ XFileVersion_is_valid(call.args.version, call.args.platform,
                                      call.args.target_le).value
             /\ XFileVersion_is_other_endian(call.args.version, call.args.platform,
                                             call.args.target_le).value)

\* C16 witness: the byte-swapped version word was found to be of the other
\* endianness for Windows
C16_Witness ==
    /\ call.op = "is_other_endian"
    /\ call.args.platform = "Windows"
    /\ call.args.target_le
    /\ call.args.version = U32(55553, 0)
    /\ call.ret.value

\* the operations on a platform that are public
PublicPlatformOps == {"XFileHeader::new", "is_le", "is_be"}

\* C17 (as stated): no sequence of public operations reaches the
\* unreachable!() branch of XFileVersion::from_platform or of
\* XFilePlatform::is_le / is_be with the Wii platform.
C17_WiiNeverUnreachable ==
    (call.op \in PublicPlatformOps /\ call.args.platform = "Wii") => ~call.ret.panic

\* C18: Windows and macOS are little-endian and PC, Xbox360 and PS3 are
\* big-endian and console; is_pc is the negation of is_console for every
\* platform; XAsset::try_get decodes with MAX_LOCAL_CLIENTS = 1 (the PC
\* variant) exactly for PC platforms and with MAX_LOCAL_CLIENTS = 4 (the
\* Console variant) exactly for console platforms.
C18_PlatformClassification ==
    /\ (call.op = "is_le" /\ call.args.platform # "Wii") =>
           (call.ret.value <=> call.args.platform \in {"Windows", "macOS"})
    /\ (call.op = "is_be" /\ call.args.platform # "Wii") =>
           (call.ret.value <=> call.args.platform \in {"Xbox360", "PS3"})
    /\ (call.op = "is_pc" /\ call.args.platform # "Wii") =>
           (call.ret.value <=> call.args.platform \in {"Windows", "macOS"})
    /\ (call.op = "is_console" /\ call.args.platform # "Wii") =>
           (call.ret.value <=> call.args.platform \in {"Xbox360", "PS3"})
    /\ call.op = "is_pc" =>
           (call.ret.value <=> ~XFilePlatform_is_console(call.args.platform))
    /\ call.op = "is_console" =>
           (call.ret.value <=> ~XFilePlatform_is_pc(call.args.platform))
    /\ (call.op = "try_get" /\ call.ret.ok) =>
           /\ call.args.platform \in {"Windows", "macOS"} =>
                  (call.ret.variant = "PC" /\ call.ret.MAX_LOCAL_CLIENTS = 1)
           /\ call.args.platform \in {"Xbox360", "PS3"} =>
                  (call.ret.variant = "Console" /\ call.ret.MAX_LOCAL_CLIENTS = 4)
           /\ call.ret.variant = "PC" <=> XFilePlatform_is_pc(call.args.platform)
           /\ call.ret.MAX_LOCAL_CLIENTS = (IF call.ret.variant = "PC" THEN 1 ELSE 4)

\* C18 witness: a GFXWORLD record was decoded for PS3 as the Console variant
C18_Witness ==
    /\ call.op = "try_get"
    /\ call.args.platform = "PS3"
    /\ call.args.asset_type = FromNat(17)
    /\ call.ret.ok
    /\ call.ret.variant = "Console"

FlexibleOps == {"FlexibleArrayU16::to_vec", "FlexibleArrayU32::to_vec"}

RaisedError ==
    \/ /\ call.op \in WeaponOps
       /\ call.op \in {"notetrack_sound_map_keys", "notetrack_sound_map_values"} =>
              ~call.args.is_null
       /\ \/ ~call.args.handles.ok
          \/ /\ call.args.handles.ok
             /\ \E k \in DOMAIN call.args.handles.value :
                    ~ScriptString_to_string(call.args.handles.value[k], call.args.at).ok
    \/ /\ call.op = "xfile_deserialize_into"
       /\ IsDefinedType
       /\ XAssetGeneric_arms[ToNat(call.args.asset_type) + 1] # "_"
       /\ ~call.args.reader.ok

\* the kind of the first error raised in the last call
FirstErrorKind ==
    IF call.op = "xfile_deserialize_into" THEN call.args.reader.kind
    ELSE IF ~call.args.handles.ok THEN call.args.handles.kind
    ELSE "BadScriptString"

\* C20 (as stated): the first error raised by a primitive read or a schema
\* conversion is what the caller receives; no error is replaced by a default
\* value (an empty vector, an empty string, an absent value).
C20_FirstErrorSurfaces ==
    RaisedError =>
        /\ ~call.ret.panic
        /\ ~call.ret.ok
        /\ call.ret.kind = FirstErrorKind

(***************************************************************************)
(* The ComWorld schema (com_world.rs): what xfile_serialize writes after   *)
(* the ComWorldRaw record and what xfile_deserialize_into reads after it.  *)
(* An item is one store_into_xfile or one inline read: its kind, the index *)
(* of the element it belongs to and, for a string, its bytes.              *)
(***************************************************************************)
MaxCells == 2      \* most primary lights, water cells and burnable cells of a ComWorld

Item(kind, i, v) == [kind |-> kind, i |-> i, v |-> v]

\* assert_size! of the raw layouts; a string is its bytes and a NUL
SizeOf(it) ==
    CASE it.kind = "XString" -> Len(it.v) + 1
      [] it.kind = "ComPrimaryLightRaw" -> 220
      [] it.kind = "ComWaterHeader" -> 16
      [] it.kind = "ComWaterCell" -> 8
      [] it.kind = "ComBurnableHeader" -> 16
      [] it.kind = "ComBurnableCellRaw" -> 12
      [] it.kind = "ComBurnableSample" -> 1

RECURSIVE SizeOfAll(_)
SizeOfAll(items) == IF items = <<>> THEN 0 ELSE SizeOf(Head(items)) + SizeOfAll(Tail(items))

\* XString::xfile_serialize: the bytes of the string and its NUL, in place
XString_xfile_serialize(s, i) == << Item("XString", i, s) >>

\* Vec<T>::xfile_serialize: every element's xfile_serialize, in order
Vec_xfile_serialize(elems) == Flatten(elems)

\* impl XFileSerialize<()> for ComPrimaryLight: store_into_xfile(primary_light),
\* then self.def_name.xfile_serialize
ComPrimaryLight_xfile_serialize(def_name, i) ==
    << Item("ComPrimaryLightRaw", i, <<>>) >> \o XString_xfile_serialize(def_name, i)

\* impl XFileSerialize<()> for ComWaterHeader / ComWaterCell / ComBurnableHeader
\* / ComBurnableSample: store_into_xfile(*self)
ComWaterHeader_xfile_serialize == << Item("ComWaterHeader", 0, <<>>) >>

ComWaterCell_xfile_serialize(i) == << Item("ComWaterCell", i, <<>>) >>

ComBurnableHeader_xfile_serialize == << Item("ComBurnableHeader", 0, <<>>) >>

ComBurnableSamples(i) == [k \in 1..32 |-> Item("ComBurnableSample", i, <<k>>)]

\* impl XFileSerialize<()> for ComBurnableCell: store_into_xfile(burnable_cell),
\* then self.data.xfile_serialize (nothing for None, the 32 samples for Some)
ComBurnableCell_xfile_serialize(has_data, i) ==
    << Item("ComBurnableCellRaw", i, <<>>) >>
    \o (IF has_data THEN ComBurnableSamples(i) ELSE <<>>)

\* impl XFileSerialize<()> for ComWorld, after ser.store_into_xfile(com_world)
ComWorld_xfile_serialize(w) ==
    Vec_xfile_serialize([i \in DOMAIN w.primary_lights |->
                            ComPrimaryLight_xfile_serialize(w.primary_lights[i], i)])
    \o ComWaterHeader_xfile_serialize
    \o Vec_xfile_serialize([i \in 1..w.water_cells |-> ComWaterCell_xfile_serialize(i)])
    \o ComBurnableHeader_xfile_serialize
    \o Vec_xfile_serialize([i \in DOMAIN w.burnable_cells |->
                               ComBurnableCell_xfile_serialize(w.burnable_cells[i], i)])

\* XStringRaw::xfile_deserialize_into behind an inline token: the bytes up to the NUL
XStringRaw_xfile_deserialize_into(s, i) == << Item("XString", i, s) >>

\* FatPointerCountFirstU32::xfile_deserialize_into: to_vec reads the raw
\* elements one after the other, then every element is converted in order
FatPointer_xfile_deserialize_into(raws, referents) == raws \o Flatten(referents)

\* impl XFileDeserializeInto<ComPrimaryLight, ()> for ComPrimaryLightRaw: def_name
ComPrimaryLightRaw_xfile_deserialize_into(def_name, i) ==
    XStringRaw_xfile_deserialize_into(def_name, i)

\* impl XFileDeserializeInto<ComBurnableCell, ()> for ComBurnableCellRaw:
\* nothing for a null data, self.data.to_vec(de) otherwise
ComBurnableCellRaw_xfile_deserialize_into(has_data, i) ==
    IF has_data THEN ComBurnableSamples(i) ELSE <<>>

\* impl XFileDeserializeInto<ComWorld, ()> for ComWorldRaw, the raw record
\* being the one xfile_serialize stored for w
ComWorldRaw_xfile_deserialize_into(w) ==
    XStringRaw_xfile_deserialize_into(w.name, 0)
    \o FatPointer_xfile_deserialize_into(
           [i \in DOMAIN w.primary_lights |-> Item("ComPrimaryLightRaw", i, <<>>)],
           [i \in DOMAIN w.primary_lights |->
               ComPrimaryLightRaw_xfile_deserialize_into(w.primary_lights[i], i)])
    \o [i \in 1..w.water_cells |-> Item("ComWaterCell", i, <<>>)]
    \o FatPointer_xfile_deserialize_into(
           [i \in DOMAIN w.burnable_cells |-> Item("ComBurnableCellRaw", i, <<>>)],
           [i \in DOMAIN w.burnable_cells |->
               ComBurnableCellRaw_xfile_deserialize_into(w.burnable_cells[i], i)])

\* names: the empty string and "a"
Names == { <<>>, <<97>> }

SeqsUpTo(S, n) == UNION { [1..k -> S] : k \in 0..n }

\* ComWorld values: a name, the def_name of every primary light, the number
\* of water cells, and for every burnable cell whether it has data
ComWorlds ==
    [name : Names, primary_lights : SeqsUpTo(Names, MaxCells),
     water_cells : 0..MaxCells, burnable_cells : SeqsUpTo(BOOLEAN, MaxCells)]

InitComWorld ==
    /\ overflow_checks \in BOOLEAN
    /\ fs = InMemory
    /\ XFILE = None
    /\ SCRIPT_STRINGS = None
    /\ stream = <<>>
    /\ pos = 0
    /\ stack = <<>>
    /\ status = "running"
    /\ resolved = NoResolve
    /\ call = NoCall
    /\ pc = "com_world"
    /\ xasset_list = None
    /\ raw_strings = <<>>
    /\ strings = <<>>
    /\ raw_assets = <<>>
    /\ deserialized_assets = <<>>

\* ComWorld::xfile_serialize on w
ComWorldXFileSerialize(w) ==
    /\ status = "running"
    /\ pc = "com_world"
    /\ call' = [op |-> "ComWorld::xfile_serialize", args |-> [at |-> pos, value |-> w],
                ret |-> [ok |-> TRUE, panic |-> FALSE, items |-> ComWorld_xfile_serialize(w)]]
    /\ pc' = "serialized"
    /\ UNCHANGED <<overflow_checks, fs, XFILE, SCRIPT_STRINGS, stream, pos, stack, status,
                   resolved, xasset_list, raw_strings, strings, raw_assets,
                   deserialized_assets>>

\* ComWorldRaw::xfile_deserialize_into on the record the last call stored
ComWorldRawXFileDeserializeInto ==
    /\ status = "running"
    /\ pc = "serialized"
    /\ call' = [op |-> "ComWorldRaw::xfile_deserialize_into",
                args |-> [at |-> pos, value |-> call.args.value, items |-> call.ret.items],
                ret |-> [ok |-> TRUE, panic |-> FALSE,
                         items |-> ComWorldRaw_xfile_deserialize_into(call.args.value)]]
    /\ pc' = "deserialized"
    /\ UNCHANGED <<overflow_checks, fs, XFILE, SCRIPT_STRINGS, stream, pos, stack, status,
                   resolved, xasset_list, raw_strings, strings, raw_assets,
                   deserialized_assets>>

NextComWorld ==
    \/ \E w \in ComWorlds : ComWorldXFileSerialize(w)
    \/ ComWorldRawXFileDeserializeInto

SpecComWorld == InitComWorld /\ [][NextComWorld]_vars

\* C21 (as stated): the items ComWorld::xfile_serialize writes after the
\* ComWorldRaw record are exactly, and in the same order, the inline referents
\* ComWorldRaw::xfile_deserialize_into reads, so that no byte is left unread
\* and none is missing.
C21_RoundTrip ==
    call.op = "ComWorldRaw::xfile_deserialize_into" =>
        /\ call.ret.items = call.args.items
        /\ SizeOfAll(call.ret.items) = SizeOfAll(call.args.items)

\* the payloads in which every byte after the envelope is the referent of an
\* inline token: inline fat pointers (null when they announce nothing),
\* inline string tokens, asset records whose type has a conversion
ValidPayloads ==
    UNION { { Payload(nn[1], stok, FFFFFFFF, nn[2], atok, arec) :
                stok \in IF nn[1] = 0 THEN {Zero32, FFFFFFFF} ELSE {FFFFFFFF},
                atok \in IF nn[2] = 0 THEN {Zero32, FFFFFFFF} ELSE {FFFFFFFF},
                arec \in { a \in AssetRecords :
                             ToNat(a.asset_type) \in ConvertedAssetTypes } }
            : nn \in (0..MaxStrings) \X (0..MaxAssets) }

\* the XFile::size field of the payload
SizeField == ToNat(deserialize_u32(SubSeq(stream, 1, 4)))

\* the minimal file: no script string and no asset
MinimalPayload ==
    Payload(0, Zero32, FFFFFFFF, 0, Zero32, CHOOSE a \in AssetRecords : TRUE)

\* C22 (as stated): for every valid input, after the full pass the cursor is
\* at the size field of the inflated header; for the minimal file the asset
\* list is empty and the final position is 52.
C22_FinalPositionIsSize ==
    /\ (status = "done" /\ stream \in ValidPayloads) => pos = SizeField
    /\ (status = "done" /\ stream = MinimalPayload) =>
           (deserialized_assets = <<>> /\ pos = 52)

(***************************************************************************)
(* Nested pointers: a record whose field is a Ptr32<A>, A holding a        *)
(* Ptr32<B> and a trailing byte, B one byte.  The payload is the record,   *)
(* then A, then B; the cursor is past the record.                          *)
(***************************************************************************)
RecordLen == 4

ALen == 5

\* impl XFileInto<..> for A: the conversion of a, read with the cursor
\* left at cur, converts its field b
A_xfile_into(a, cur) == Ptr32_xfile_into(deserialize_u32(SubSeq(a, 1, 4)), cur, 1)

\* Ptr32<A>::xfile_into: the body of Ptr32::xfile_into with
\* .map(|t| Box::new(t.xfile_into(xfile, data))) for a T that holds a pointer.
\* value: A's bytes and B's; at: where A was read; nested: what converting A returned
Ptr32A_xfile_into(token, cur) ==
    IF token = Zero32 THEN [Absent(cur) EXCEPT !.resolve = Absent(cur)]
    ELSE IF token # FFFFFFFF THEN [Absent(cur) EXCEPT !.resolve = Absent(cur)]
    ELSE IF token # FFFFFFFE THEN [Absent(cur) EXCEPT !.resolve = Absent(cur)]
    ELSE LET a == FromSeekAnd(seek_and(Start(token), cur,
                                       [c \in Cursors(cur) |-> read_elems(c, 1, ALen)]),
                              FALSE)
         IN  IF a.panic \/ ~a.some THEN [a EXCEPT !.resolve = Absent(cur)]
             ELSE [a EXCEPT !.panic = A_xfile_into(a.value[1], a.pos).panic,
                            !.pos = A_xfile_into(a.value[1], a.pos).pos,
                            !.resolve = A_xfile_into(a.value[1], a.pos)]

NestedTokens ==
    {Zero32, FFFFFFFF, FFFFFFFE, TokenOf(0), TokenOf(RecordLen), TokenOf(RecordLen + ALen)}

\* the record, A (its pointer to B and a trailing byte), B
NestedStreams ==
    { LE32(ta) \o LE32(tb) \o <<x>> \o <<y>> :
        ta \in NestedTokens, tb \in NestedTokens, x \in {1, 2}, y \in {3, 4} }

InitNested ==
    /\ overflow_checks \in BOOLEAN
    /\ fs = InMemory
    /\ XFILE = Some(Pad(FromNat(RecordLen + ALen + 1), Zero32, Zero32))
    /\ SCRIPT_STRINGS = None
    /\ stream \in NestedStreams
    /\ pos = RecordLen
    /\ stack = <<>>
    /\ status = "running"
    /\ resolved = NoResolve
    /\ call = NoCall
    /\ pc = "nested"
    /\ xasset_list = None
    /\ raw_strings = <<>>
    /\ strings = <<>>
    /\ raw_assets = <<>>
    /\ deserialized_assets = <<>>

\* the field of the record is converted
Ptr32AXFileInto ==
    /\ pc = "nested"
    /\ pc' = "converted"
    /\ status = "running"
    /\ pos' = Ptr32A_xfile_into(deserialize_u32(SubSeq(stream, 1, 4)), pos).pos
    /\ status' = IF Ptr32A_xfile_into(deserialize_u32(SubSeq(stream, 1, 4)), pos).panic
                 THEN "panicked" ELSE status
    /\ call' = [op |-> "Ptr32<A>::xfile_into", token |-> deserialize_u32(SubSeq(stream, 1, 4)),
                size |-> 1, sz |-> ALen, before |-> pos,
                ret |-> Ptr32A_xfile_into(deserialize_u32(SubSeq(stream, 1, 4)), pos)]
    /\ UNCHANGED <<overflow_checks, fs, XFILE, SCRIPT_STRINGS, stream, stack, resolved,
                   xasset_list, raw_strings, strings, raw_assets, deserialized_assets>>

\* the field of the record is fetched without conversion
Ptr32AXFileGet ==
    /\ pc = "nested"
    /\ pc' = "fetched"
    /\ status = "running"
    /\ pos' = Ptr32_xfile_get(deserialize_u32(SubSeq(stream, 1, 4)), pos, ALen).pos
    /\ status' = IF Ptr32_xfile_get(deserialize_u32(SubSeq(stream, 1, 4)), pos, ALen).panic
                 THEN "panicked" ELSE status
    /\ call' = [op |-> "Ptr32<A>::xfile_get", token |-> deserialize_u32(SubSeq(stream, 1, 4)),
                size |-> 1, sz |-> ALen, before |-> pos,
                ret |-> Ptr32_xfile_get(deserialize_u32(SubSeq(stream, 1, 4)), pos, ALen)]
    /\ UNCHANGED <<overflow_checks, fs, XFILE, SCRIPT_STRINGS, stream, stack, resolved,
                   xasset_list, raw_strings, strings, raw_assets, deserialized_assets>>

NextNested ==
    \/ Ptr32AXFileInto
    \/ Ptr32AXFileGet

SpecNested == InitNested /\ [][NextNested]_vars

\* C23 (as stated): when the Ptr32<A> of a record is an inline sentinel and
\* the Ptr32<B> of A is an inline sentinel too, converting the pointer reads
\* A right after the record and B right after A, and leaves the cursor past
\* B's last byte.
C23_NestedInline ==
    (/\ call.op = "Ptr32<A>::xfile_into"
     /\ call.token \in {FFFFFFFF, FFFFFFFE}
     /\ deserialize_u32(SubSeq(stream, RecordLen + 1, RecordLen + 4))
            \in {FFFFFFFF, FFFFFFFE})
    => /\ ~call.ret.panic
       /\ call.ret.some
       /\ call.ret.at = RecordLen
       /\ call.ret.value = <<SubSeq(stream, RecordLen + 1, RecordLen + ALen)>>
       /\ call.ret.resolve.some
       /\ call.ret.resolve.at = RecordLen + ALen
       /\ pos = RecordLen + ALen + 1

(***************************************************************************)
(* The container loader: main from its first statement.  The cache sidecar *)
(* is looked for; without one decompress_xfile opens the fastfile, checks  *)
(* its header, inflates the payload and writes the sidecar; then the pass  *)
(* of SpecMain runs over the handle main holds.                            *)
(***************************************************************************)
\* the statements of decompress_xfile, in program order
decompress_statements_CacheFirst == <<"File_open", "File_create", "verify", "inflate">>

decompress_statements == <<"File_open", "verify", "inflate", "File_create">>

\* the statement that follows statement s of decompress_xfile; main goes on
\* with its read of the XFile
decompress_next(s) ==
    LET i == CHOOSE i \in 1..Len(decompress_statements) : decompress_statements[i] = s
    IN  IF i < Len(decompress_statements) THEN decompress_statements[i + 1]
        ELSE main_statements[1]

\* the inflated payloads: the minimal one, and one with a script string and
\* a RawFile asset
LoadPayloads ==
    { MinimalPayload,
      Payload(1, FFFFFFFF, FFFFFFFF, 1, FFFFFFFF,
              [asset_type |-> FromNat(36), asset_data |-> Zero32, referent |-> <<>>]) }

\* fastfiles: the header, whether the compressed remainder inflates, and the
\* payload it inflates to
Fastfiles ==
    [magic : {IWffu100, IWff0100, [IWffu100 EXCEPT ![8] = 49]},
     version : {XFILE_VERSION, U32(55553, 0), U32(0, 474)},
     inflates : BOOLEAN,
     payload : LoadPayloads]

InitLoad ==
    /\ overflow_checks \in BOOLEAN
    /\ fs \in [ff : {Some(f) : f \in Fastfiles},
               cache : {None} \cup {Some(p) : p \in LoadPayloads},
               file : {"none"}, found : {FALSE}, opened : {FALSE}, verified : {FALSE},
               inflated : {FALSE}]
    /\ XFILE = None
    /\ SCRIPT_STRINGS = None
    /\ stream = <<>>
    /\ pos = 0
    /\ stack = <<>>
    /\ status = "running"
    /\ resolved = NoResolve
    /\ call = NoCall
    /\ pc = "cache_exists"
    /\ xasset_list = None
    /\ raw_strings = <<>>
    /\ strings = <<>>
    /\ raw_assets = <<>>
    /\ deserialized_assets = <<>>

\* a statement of the loader ran: it panicked, or went on to statement next
\* with the files as f
Loaded(panic, next, f) ==
    /\ status' = IF panic THEN "panicked" ELSE status
    /\ pc' = IF panic THEN pc ELSE next
    /\ fs' = IF panic THEN fs ELSE f
    /\ UNCHANGED <<overflow_checks, XFILE, SCRIPT_STRINGS, stack, resolved, call,
                   xasset_list, raw_strings, strings, raw_assets, deserialized_assets>>

\* if !Path::new(&filename).with_extension("cache").exists()
CacheExists ==
    /\ At("cache_exists")
    /\ Loaded(FALSE, IF fs.cache.set THEN "open_cache" ELSE decompress_statements[1],
              [fs EXCEPT !.found = fs.cache.set])
    /\ UNCHANGED <<stream, pos>>

\* File::open(cached_filename), read_to_end, seek(Start(0)), BufReader::with_capacity
OpenCache ==
    /\ At("open_cache")
    /\ Loaded(~fs.cache.set, main_statements[1], [fs EXCEPT !.file = "read"])
    /\ stream' = IF fs.cache.set THEN fs.cache.v ELSE stream
    /\ pos' = 0

\* decompress_xfile: File::open(&filename), read_exact(&mut header_bytes),
\* bincode::deserialize::<XFileHeader>
FileOpen ==
    /\ At("File_open")
    /\ Loaded(~fs.ff.set, decompress_next(pc), [fs EXCEPT !.opened = TRUE])
    /\ UNCHANGED <<stream, pos>>

\* decompress_xfile: the two assert!s on the header
VerifyHeader ==
    /\ At("verify")
    /\ Loaded(decompress_xfile([magic |-> fs.ff.v.magic, version |-> fs.ff.v.version]).panic,
              decompress_next(pc), [fs EXCEPT !.verified = TRUE])
    /\ UNCHANGED <<stream, pos>>

\* decompress_xfile: read_to_end, inflate::inflate_bytes_zlib(..).unwrap()
Inflate ==
    /\ At("inflate")
    /\ Loaded(~fs.ff.v.inflates, decompress_next(pc), [fs EXCEPT !.inflated = TRUE])
    /\ UNCHANGED <<stream, pos>>

\* decompress_xfile: File::create(..with_extension("cache")), write_all,
\* seek(Start(0)), BufReader::new(file_out)
FileCreate ==
    /\ At("File_create")
    /\ Loaded(FALSE, decompress_next(pc),
              [fs EXCEPT !.cache = Some(fs.ff.v.payload), !.file = "write"])
    /\ stream' = fs.ff.v.payload
    /\ pos' = 0

NextLoad ==
    \/ CacheExists
    \/ OpenCache
    \/ FileOpen
    \/ VerifyHeader
    \/ Inflate
    \/ FileCreate
    \/ NextMain

SpecLoad == InitLoad /\ [][NextLoad]_vars

\* the header of the fastfile passes both checks of decompress_xfile
HeaderIsValid ==
    /\ xfile_header_magic_is_valid(fs.ff.v.magic)
    /\ fs.ff.v.version = XFILE_VERSION

\* main is past the loader: at a statement that parses the payload
Parsing == \E i \in 1..Len(main_statements) : pc = main_statements[i]

CacheWritten == fs.file = "write"

\* C25: the presence of the cache sidecar is checked before the fastfile is
\* opened, the sidecar is written only in a run whose header validation and
\* inflate both succeeded, and a failed validation or inflate leaves no
\* cache file behind.
C25_CacheAfterInflate ==
    /\ fs.opened => (pc # "cache_exists" /\ ~fs.found)
    /\ CacheWritten => (fs.verified /\ fs.inflated /\ HeaderIsValid /\ fs.ff.v.inflates
                        /\ fs.cache = Some(fs.ff.v.payload))
    /\ ~CacheWritten => fs.cache.set = fs.found \/ pc = "cache_exists"
    /\ (status = "panicked" /\ pc \in {"verify", "inflate"}) => ~fs.cache.set

\* C25 witness: a run without a sidecar validated the header, inflated the
\* payload and wrote the sidecar
C25_Witness ==
    /\ CacheWritten
    /\ ~fs.found
    /\ fs.cache = Some(fs.ff.v.payload)
    /\ pc = main_statements[1]


\* a pointer has been resolved, or a statement that resolves pointers is reached
PointerWorkStarted ==
    \/ resolved # NoResolve
    \/ raw_strings # <<>>
    \/ pc \notin {"read_xfile", "read_xasset_list"}

\* C26: the block-size table and the script-string table are each written
\* exactly once per pass, the block sizes before any pointer is resolved and
\* the script strings before any asset is read, and no later step of the
\* pass modifies either of them.
C26_TablesWrittenOnce ==
    /\ [](PointerWorkStarted => XFILE.set)
    /\ [](AssetWorkStarted => SCRIPT_STRINGS.set)
    /\ [](status = "done" => (XFILE.set /\ SCRIPT_STRINGS.set))
    /\ [][/\ XFILE.set => XFILE' = XFILE
          /\ SCRIPT_STRINGS.set => SCRIPT_STRINGS' = SCRIPT_STRINGS
          /\ XFILE' # XFILE => (pc = "read_xfile" /\ ~PointerWorkStarted)
          /\ SCRIPT_STRINGS' # SCRIPT_STRINGS =>
                (pc = "SCRIPT_STRINGS_set" /\ ~AssetWorkStarted
                 /\ SCRIPT_STRINGS' = Some(strings))]_vars

\* C26 witness: a pass that resolved pointers and decoded an asset has
\* returned with both tables stored
C26_Witness ==
    /\ status = "done"
    /\ XFILE.set
    /\ SCRIPT_STRINGS.set
    /\ SCRIPT_STRINGS.v # <<>>
    /\ resolved # NoResolve
    /\ deserialized_assets # <<>>


\* C27: for every absolute token, the block index that convert_offset_to_ptr
\* derives from the top three bits of token - 1 names one of the seven blocks
\* (block <= 6), and the prefix sum covers only the sizes of the blocks that
\* precede that block.
C27_BlockIsOneOfSeven ==
    (call = [op |-> "resolve"] /\ resolved.invoked) =>
        /\ resolved.res.block <= NumBlocks - 1
        /\ \A k \in 1..resolved.res.block : k \in DOMAIN XFILE.v /\ k - 1 < resolved.res.block


(***************************************************************************)
(* SpecFat: xfile_into of a fat pointer and of a pointer array whose       *)
(* elements are XStrings: to_vec, then the conversion of each element.     *)
(* call.reads is the history of the reads: of raw element i at byte at, or *)
(* of the referent of element i at byte at.                                *)
(***************************************************************************)
MaxElems == 2      \* most elements a fat pointer of SpecFat announces

XStringLen == 4    \* size_of::<XString>()

\* a faulty variant: the elements are taken from the back
into_iter_next_Reversed(raws, done) == raws[Len(raws) - done]

\* .into_iter().map(|a| ..): the element the iterator yields after done elements
into_iter_next(raws, done) == raws[done + 1]

\* element tokens: null, inline, an address that the conversion ignores
ElemTokens == {Zero32, FFFFFFFF, TokenOf(0)}

\* payloads: n XString tokens, then a string for each of them; one payload
\* ends before its last string does
FatStreams ==
    UNION { { Flatten([i \in 1..n |-> LE32(xt[i])]) \o Flatten([i \in 1..n |-> <<96 + i, 0>>]),
              Flatten([i \in 1..n |-> LE32(xt[i])]) \o Flatten([i \in 1..n |-> <<96 + i>>]) }
            : xt \in [1..MaxElems -> ElemTokens], n \in 1..MaxElems }

InitFat ==
    /\ overflow_checks \in BOOLEAN
    /\ fs = InMemory
    /\ XFILE = Some(MainTable)
    /\ SCRIPT_STRINGS = None
    /\ stream \in FatStreams
    /\ pos \in {XStringLen * n : n \in 0..MaxElems}
    /\ stack = <<>>
    /\ status = "running"
    /\ resolved = NoResolve
    /\ call \in [op : {"xfile_into"},
                 impl : {"FatPointerCountFirstU32", "Ptr32Array"},
                 p : {Zero32, FFFFFFFF, TokenOf(0)},
                 size : 0..MaxElems,
                 reads : {<<>>}]
    /\ pc = "to_vec"
    /\ xasset_list = None
    /\ raw_strings = <<>>
    /\ strings = <<>>
    /\ raw_assets = <<>>
    /\ deserialized_assets = <<>>

\* self.clone().to_vec(&mut xfile)
FatToVec ==
    /\ At("to_vec")
    /\ LET r == IF call.impl = "Ptr32Array"
                THEN Ptr32Array_to_vec(call.p, call.size, pos, XStringLen)
                ELSE FatPointerCountFirstU32_to_vec(call.p, call.size, pos, XStringLen)
       IN  /\ pos' = r.pos
           /\ resolved' = r.resolve
           /\ raw_strings' = [i \in 1..Len(r.value) |-> deserialize_u32(r.value[i])]
           /\ call' = [call EXCEPT !.reads =
                         [i \in 1..Len(r.value) |->
                            [what |-> "raw", index |-> i, at |-> r.at + (i - 1) * XStringLen]]]
           /\ status' = IF r.panic THEN "panicked" ELSE status
           /\ pc' = IF r.panic THEN pc ELSE "map"
    /\ UNCHANGED <<overflow_checks, fs, XFILE, SCRIPT_STRINGS, stream, stack, xasset_list,
                   strings, raw_assets, deserialized_assets>>

\* .map(|a| a.xfile_into(&mut xfile, data)): the next element
FatElemXFileInto ==
    /\ At("map")
    /\ Len(strings) < Len(raw_strings)
    /\ LET r == XString_xfile_into(into_iter_next(raw_strings, Len(strings)), pos)
       IN  /\ pos' = r.pos
           /\ resolved' = r.resolve
           /\ strings' = IF r.panic THEN strings ELSE Append(strings, r.value)
           /\ call' = IF ~r.read THEN call
                      ELSE [call EXCEPT !.reads =
                              Append(@, [what |-> "referent", index |-> Len(strings) + 1,
                                         at |-> r.at])]
           /\ status' = IF r.panic THEN "panicked" ELSE status
           /\ pc' = pc
    /\ UNCHANGED <<overflow_checks, fs, XFILE, SCRIPT_STRINGS, stream, stack, xasset_list,
                   raw_strings, raw_assets, deserialized_assets>>

\* .collect(): the iterator is exhausted
FatCollected ==
    /\ At("map")
    /\ Len(strings) = Len(raw_strings)
    /\ pc' = "collected"
    /\ status' = "done"
    /\ UNCHANGED <<overflow_checks, fs, XFILE, SCRIPT_STRINGS, stream, pos, stack, resolved,
                   call, xasset_list, raw_strings, strings, raw_assets, deserialized_assets>>

NextFat ==
    \/ FatToVec
    \/ FatElemXFileInto
    \/ FatCollected

SpecFat == InitFat /\ [][NextFat]_vars

\* the bytes from byte c of the payload (c counted from 0) up to the next NUL
RECURSIVE BytesAt(_)
BytesAt(c) ==
    IF c >= Len(stream) \/ stream[c + 1] = 0 THEN <<>>
    ELSE <<stream[c + 1]>> \o BytesAt(c + 1)

\* C28: when a fat pointer or pointer array of n elements with a target is
\* converted, all n raw elements are read consecutively from the target
\* before any element is converted, the referents of element i are read
\* after those of every element j < i, and the output has the n elements
\* in wire order.
C28_RawsThenReferentsInOrder ==
    (pc \in {"map", "collected"} /\ call.p # Zero32) =>
        /\ Len(raw_strings) = call.size
        /\ Len(call.reads) >= call.size
        /\ \A i \in 1..call.size :
              /\ call.reads[i].what = "raw"
              /\ call.reads[i].index = i
              /\ call.reads[i].at = call.reads[1].at + (i - 1) * XStringLen
              /\ raw_strings[i] = deserialize_u32(SubSeq(stream, call.reads[i].at + 1,
                                                         call.reads[i].at + XStringLen))
        /\ \A k \in (call.size + 1)..Len(call.reads) :
              /\ call.reads[k].what = "referent"
              /\ raw_strings[call.reads[k].index] = FFFFFFFF
              /\ \A j \in (call.size + 1)..(k - 1) :
                    /\ call.reads[j].index < call.reads[k].index
                    /\ call.reads[j].at < call.reads[k].at
        /\ Len(strings) <= call.size
        /\ pc = "collected" => Len(strings) = call.size
        /\ \A i \in 1..Len(strings) :
              IF raw_strings[i] # FFFFFFFF THEN strings[i] = <<>>
              ELSE \E k \in (call.size + 1)..Len(call.reads) :
                      /\ call.reads[k].index = i
                      /\ strings[i] = to_string_lossy(BytesAt(call.reads[k].at))

\* C28 witness: two inline elements were read at an absolute target and
\* converted, each from its own referent
C28_Witness ==
    /\ pc = "collected"
    /\ call.size = 2
    /\ call.p = TokenOf(0)
    /\ Len(call.reads) = 4
    /\ call.reads[3].at = 2 * XStringLen
    /\ strings = <<<<97>>, <<98>>>>


(***************************************************************************)
(* SpecXAsset: the accessors of XAsset (xasset.rs).  An XAssetGeneric is   *)
(* [variant, p]: p is the Option<Box<..>> of the variant, and p.v.name the *)
(* field that name() of the variant reads.                                 *)
(***************************************************************************)
XAssetGenericVariants ==
    {"PhysPreset", "PhysConstraints", "DestructibleDef", "XAnimParts", "XModel",
     "Material", "TechniqueSet", "Image", "Sound", "SoundPatch", "ClipMap", "ClipMapPVS",
     "ComWorld", "GameWorldSp", "GameWorldMp", "MapEnts", "GfxWorld", "LightDef", "Font",
     "MenuList", "Menu", "LocalizeEntry", "Weapon", "SndDriverGlobals", "Fx", "ImpactFx",
     "RawFile", "StringTable", "PackIndex", "XGlobals", "Ddl", "Glasses", "EmblemSet"}

\* XAssetGeneric::is_some
XAssetGeneric_is_some(a) == a.p.set

\* XAssetGeneric::is_none
XAssetGeneric_is_none(a) == ~XAssetGeneric_is_some(a)

\* "emblemset"
emblemset == <<101, 109, 98, 108, 101, 109, 115, 101, 116>>

\* XAssetGeneric::name
XAssetGeneric_name(a) ==
    IF a.variant = "EmblemSet" THEN Some(emblemset)       \* Self::EmblemSet(_)
    ELSE IF a.p.set THEN Some(a.p.v.name) ELSE None       \* p.as_ref().map(|p| p.name.as_str())

\* XAsset::name
XAsset_name(x) == XAssetGeneric_name(x.a)

\* XAsset::is_some
XAsset_is_some(x) == XAssetGeneric_is_some(x.a)

\* XAsset::is_none
XAsset_is_none(x) == ~XAsset_is_some(x)

\* the assets: either platform, every variant, without a payload or with one
\* of either name
XAssets ==
    [platform : {"PC", "Console"},
     a : [variant : XAssetGenericVariants,
          p : {None} \cup {Some([name |-> n]) : n \in Names}]]

InitXAsset ==
    /\ overflow_checks \in BOOLEAN
    /\ fs = InMemory
    /\ XFILE = None
    /\ SCRIPT_STRINGS = None
    /\ stream = <<>>
    /\ pos = 0
    /\ stack = <<>>
    /\ status = "running"
    /\ resolved = NoResolve
    /\ call = NoCall
    /\ pc = "xasset"
    /\ xasset_list = None
    /\ raw_strings = <<>>
    /\ strings = <<>>
    /\ raw_assets = <<>>
    /\ deserialized_assets = <<>>

XAssetName(x) ==
    /\ pc = "xasset"
    /\ pc' = "called"
    /\ call' = [op |-> "name", self |-> x, ret |-> XAsset_name(x)]
    /\ UNCHANGED <<overflow_checks, fs, XFILE, SCRIPT_STRINGS, stream, pos, stack, status,
                   resolved, xasset_list, raw_strings, strings, raw_assets,
                   deserialized_assets>>

XAssetIsSome(x) ==
    /\ pc = "xasset"
    /\ pc' = "called"
    /\ call' = [op |-> "is_some", self |-> x, ret |-> XAsset_is_some(x)]
    /\ UNCHANGED <<overflow_checks, fs, XFILE, SCRIPT_STRINGS, stream, pos, stack, status,
                   resolved, xasset_list, raw_strings, strings, raw_assets,
                   deserialized_assets>>

XAssetIsNone(x) ==
    /\ pc = "xasset"
    /\ pc' = "called"
    /\ call' = [op |-> "is_none", self |-> x, ret |-> XAsset_is_none(x)]
    /\ UNCHANGED <<overflow_checks, fs, XFILE, SCRIPT_STRINGS, stream, pos, stack, status,
                   resolved, xasset_list, raw_strings, strings, raw_assets,
                   deserialized_assets>>

NextXAsset ==
    \/ \E x \in XAssets : XAssetName(x)
    \/ \E x \in XAssets : XAssetIsSome(x)
    \/ \E x \in XAssets : XAssetIsNone(x)

SpecXAsset == InitXAsset /\ [][NextXAsset]_vars

\* C29: for every XAsset of every variant, name() returns a name if and only
\* if is_some() holds; an asset whose payload is absent has no name; is_none()
\* is the negation of is_some().
C29_NameIffSome ==
    /\ (pc = "called" /\ call.op = "name") =>
          /\ call.ret.set <=> XAsset_is_some(call.self)
          /\ ~call.self.a.p.set => call.ret = None
    /\ (pc = "called" /\ call.op = "is_some") => call.ret = call.self.a.p.set
    /\ (pc = "called" /\ call.op = "is_none") => call.ret = ~XAsset_is_some(call.self)


(***************************************************************************)
(* SpecMapEnts: MapEntsRaw::xfile_into.                                    *)
(***************************************************************************)
MaxEnts == 3       \* longest payload, and largest count, of SpecMapEnts

\* CString::from_vec_with_nul(chars).unwrap().to_str().unwrap().to_string()
\* panic: a NUL before the last byte or none at the end; a byte that is not
\* UTF-8 (the payloads of this model hold ASCII bytes and 0xFF only)
CString_from_vec_with_nul(chars) ==
    IF chars = <<>> \/ chars[Len(chars)] # 0
       \/ \E i \in 1..(Len(chars) - 1) : chars[i] = 0
       \/ \E k \in 1..Len(chars) : chars[k] >= 128
    THEN [panic |-> TRUE, value |-> <<>>]
    ELSE [panic |-> FALSE, value |-> SubSeq(chars, 1, Len(chars) - 1)]

\* if chars.bytes().last().unwrap().unwrap() != b'\0' { chars.push(b'\0'); }
\* panic: last() of an empty vector is None
push_nul(chars) ==
    IF chars = <<>> THEN [panic |-> TRUE, value |-> chars]
    ELSE IF chars[Len(chars)] # 0 THEN [panic |-> FALSE, value |-> Append(chars, 0)]
    ELSE [panic |-> FALSE, value |-> chars]

\* impl XFileInto<MapEnts, ()> for MapEntsRaw: xfile_into.  chars is what
\* to_vec returned
MapEntsRaw_xfile_into(self, cur) ==
    LET name  == XString_xfile_into(self.name, cur)
        v     == FatPointerCountLastU32_to_vec(self.entity_string.p,
                                               self.entity_string.size, name.pos, 1)
        chars == push_nul(Flatten(v.value))
        s     == CString_from_vec_with_nul(chars.value)
    IN  IF name.panic
        THEN [panic |-> TRUE, pos |-> name.pos, chars |-> <<>>, value |-> None,
              resolve |-> name.resolve]
        ELSE IF v.panic \/ chars.panic \/ s.panic
        THEN [panic |-> TRUE, pos |-> v.pos, chars |-> Flatten(v.value), value |-> None,
              resolve |-> v.resolve]
        ELSE [panic |-> FALSE, pos |-> v.pos, chars |-> Flatten(v.value),
              value |-> Some([name |-> name.value, entity_string |-> s.value]),
              resolve |-> v.resolve]

\* payloads of up to MaxEnts bytes: NUL, 'a', 0xFF
RECURSIVE EntStreams(_)
EntStreams(n) ==
    IF n = 0 THEN {<<>>}
    ELSE EntStreams(n - 1)
         \cup {Append(s, b) : s \in {t \in EntStreams(n - 1) : Len(t) = n - 1}, b \in {0, 97, 255}}

MapEntsRaws ==
    [name : {Zero32, FFFFFFFF},
     entity_string : [p : {Zero32, FFFFFFFF, FromNat(1)}, size : 0..MaxEnts]]

InitMapEnts ==
    /\ overflow_checks \in BOOLEAN
    /\ fs = InMemory
    /\ XFILE = Some([i \in 1..NumBlocks |-> FromNat(MaxEnts)])
    /\ SCRIPT_STRINGS = None
    /\ stream \in EntStreams(MaxEnts)
    /\ pos = 0
    /\ stack = <<>>
    /\ status = "running"
    /\ resolved = NoResolve
    /\ call = NoCall
    /\ pc = "map_ents"
    /\ xasset_list = None
    /\ raw_strings = <<>>
    /\ strings = <<>>
    /\ raw_assets = <<>>
    /\ deserialized_assets = <<>>

MapEntsRawXFileInto ==
    /\ At("map_ents")
    /\ \E self \in MapEntsRaws :
          LET r == MapEntsRaw_xfile_into(self, pos)
          IN  /\ call' = [op |-> "MapEntsRaw::xfile_into", self |-> self, at |-> pos,
                          ret |-> r]
              /\ pos' = r.pos
              /\ resolved' = r.resolve
              /\ status' = IF r.panic THEN "panicked" ELSE status
    /\ pc' = "converted"
    /\ UNCHANGED <<overflow_checks, fs, XFILE, SCRIPT_STRINGS, stream, stack,
                   xasset_list, raw_strings, strings, raw_assets, deserialized_assets>>

\* the caller, the MapEnts arm of XAssetRaw::xfile_into, takes the value
MapEntsDropped ==
    /\ pc = "converted"
    /\ status = "running"
    /\ pc' = "dropped"
    /\ call' = NoCall
    /\ UNCHANGED <<overflow_checks, fs, XFILE, SCRIPT_STRINGS, stream, pos, stack, status,
                   resolved, xasset_list, raw_strings, strings, raw_assets,
                   deserialized_assets>>

NextMapEnts ==
    \/ MapEntsRawXFileInto
    \/ MapEntsDropped

SpecMapEnts == InitMapEnts /\ [][NextMapEnts]_vars

\* C30: converting a MapEnts record whose entity_string fat pointer is null
\* or has count zero succeeds and yields an empty entity string; for a
\* non-empty buffer the decoded string is the buffer's bytes up to its
\* terminating NUL, a NUL being appended only when the last byte is not NUL.
C30_EmptyEntityString ==
    (pc = "converted" /\ call.self.name = Zero32) =>
        /\ (call.self.entity_string.p = Zero32 \/ call.self.entity_string.size = 0) =>
              /\ ~call.ret.panic
              /\ call.ret.value.v.entity_string = <<>>
        /\ (call.ret.chars # <<>> /\ ~call.ret.panic) =>
              call.ret.value.v.entity_string =
                 IF call.ret.chars[Len(call.ret.chars)] = 0
                 THEN SubSeq(call.ret.chars, 1, Len(call.ret.chars) - 1)
                 ELSE call.ret.chars

====
